---- MODULE Spec2Model ----
(***************************************************************************)
(* A model of the resource-and-concurrency layer of RFSN-CODING:           *)
(*   rfsn_controller/llm_async.py  (response cache, model invocation),     *)
(*   rfsn_controller/optimizations.py  (worker pool, termination           *)
(*   heuristics, retry with backoff, memoization with a time to live).     *)
(* Each specification below covers one component; the variables of the     *)
(* other components keep their initial values in it.                       *)
(*                                                                         *)
(* Conventions.                                                            *)
(*  - An optional value (Python's None or a value) is a sequence of length *)
(*    0 or 1: <<>> is None, <<v>> is v.                                    *)
(*  - The cache table is the sequence of its rows in rowid order. SQLite   *)
(*    gives a row written by INSERT OR REPLACE a fresh, largest rowid, so  *)
(*    a replaced row moves to the end of the sequence.                     *)
(*  - Time is counted in hours (time.time() / 3600) where the cache is     *)
(*    concerned, in the unit of max_idle_time where the worker pool is and *)
(*    in seconds for the delays of a retry and the ages of memoized        *)
(*    values; the clock never runs backwards.                              *)
(*  - Temperatures are counted in thousandths (200 is 0.2).                *)
(***************************************************************************)
EXTENDS Integers, Sequences, FiniteSets, TLC

VARIABLES
    store,      \* LLMCache: the rows of table `cache`, in rowid order
    conn,       \* LLMCache._conn is not None
    now,        \* time.time()
    last,       \* the last cache operation: its name, arguments, what it read and returned
    thr,        \* the threads that share the cache: where each is in get or set, and its locals
    httpx_available,   \* HTTPX_AVAILABLE: httpx could be imported
    api_key,    \* os.environ holds DEEPSEEK_API_KEY
    call,       \* the call_deepseek_cached in progress or just finished
    par,        \* the call_parallel in progress: its requests, tasks and results
    workers,    \* SubprocessPool._workers: the workers in list order
    signalled,  \* the processes the step just taken stopped, and how
    pool_lock,  \* SubprocessPool._lock: the caller that holds it, if any
    caller,     \* the callers of the pool: where each is, its locals, the workers it holds
    config,     \* TerminationHeuristics: the four configuration fields
    heur,       \* TerminationHeuristics: _patch_hashes and the three counters
    recorded,   \* the attempts recorded since construction or the last reset
    verdict,    \* what the last should_terminate ended with
    policy,     \* retry_with_backoff: the arguments of the decorator
    retry,      \* retry_with_backoff: the wrapper's locals and what the call has done so far
    memo,       \* memoize_with_ttl: ttl_seconds and maxsize
    cache,      \* memoize_with_ttl: the dict `cache`, its items in the dict's order
    lock,       \* memoize_with_ttl: the thread that holds `lock`, if one does
    memo_call   \* memoize_with_ttl: each thread's call of the wrapper, its locals and result

cacheVars == <<store, conn, now, last>>

asyncVars == <<httpx_available, api_key, call, par>>

poolVars == <<workers, signalled, pool_lock, caller>>

heurVars == <<config, heur, recorded, verdict>>

\* The state of optimizations.py
\* retry_with_backoff: the decorator's arguments and one call of the wrapper
retryVars == <<policy, retry>>

\* memoize_with_ttl: the decorator's arguments, the closure's cache and lock,
\* and the calls of the wrapper
memoVars == <<memo, cache, lock, memo_call>>

resVars == <<retryVars, memoVars>>

optVars == <<poolVars, heurVars, resVars>>

\* What the operations of a cache used from one thread leave alone
exceptCache == <<thr, asyncVars, optVars>>

vars == <<store, conn, now, last, thr, httpx_available, api_key, call, par,
          workers, signalled, pool_lock, caller, config, heur, recorded, verdict,
          policy, retry, memo, cache, lock, memo_call>>

(***************************************************************************)
(* Bounds of the model.                                                    *)
(***************************************************************************)
MaxEntries == 2      \* LLMCache.max_entries, scaled down from 10000
MaxAgeHours == 1     \* LLMCache.max_age_hours, scaled down from 24
MaxTime == 2         \* the clock stops here
MaxHits == 1         \* the hits of the rows in the table are counted up to here
MaxParallel == 3     \* call_parallel is given at most this many requests
MaxWorkers == 2      \* SubprocessPool.max_workers, scaled down from 4
MaxIdleTime == 1     \* SubprocessPool.max_idle_time, scaled down from 60.0
MaxPoolTime == 2     \* the clock of the pool stops here
MaxLen == 3          \* the maxlen of TerminationHeuristics._patch_hashes, scaled down from 20
MaxSize == 2         \* the largest maxsize of a memoize_with_ttl
MaxMemoTime == 2     \* the clock of the memoized calls stops here
MaxRetries == 3      \* the largest max_retries of a policy
MaxAttempts == 5     \* at most this many attempts are recorded between two resets

\* The texts a caller stores and the backend replies with
Contents == {"x", "y"}

\* The requests the callers issue, as (prompt, model, temperature): (p, m, 0.0)
\* and (p, m, 0.004) format to the same key, the other two are keys of their own.
Requests ==
    { [prompt |-> "p", model |-> "m", temperature |-> 0],
      [prompt |-> "p", model |-> "m", temperature |-> 4],
      [prompt |-> "p", model |-> "m", temperature |-> 200],
      [prompt |-> "q", model |-> "m", temperature |-> 0] }

(***************************************************************************)
(* AsyncLLMResponse and the cache key.                                     *)
(***************************************************************************)
AsyncLLMResponse(content, model, temperature, cached) ==
    [content |-> content, model |-> model, temperature |-> temperature, cached |-> cached]

\* f"{temperature:.2f}" of a temperature given in thousandths (no temperature
\* of Requests lies halfway between two hundredths).
TempFmt(t) ==
    LET h == (t + 5) \div 10
    IN  ToString(h \div 100) \o "." \o ToString((h \div 10) % 10) \o ToString(h % 10)

\* The key string that is digested; sha256(...)[:32] is taken to be injective.
hash_prompt(prompt, model, temperature) ==
    model \o ":" \o TempFmt(temperature) \o ":" \o prompt

KeyOf(r) == hash_prompt(r.prompt, r.model, r.temperature)

(***************************************************************************)
(* SQL statements on the table.                                            *)
(***************************************************************************)
Row(h, response, created_at) ==
    [prompt_hash |-> h, response |-> response, created_at |-> created_at, hit_count |-> 0]

\* The row with the key, if there is one
SelectRow(tbl, h) ==
    LET hit == SelectSeq(tbl, LAMBDA r : r.prompt_hash = h)
    IN  IF hit = <<>> THEN <<>> ELSE <<hit[1]>>

\* SELECT response, created_at FROM cache WHERE prompt_hash = ?  and fetchone()
Fetch(tbl, h) ==
    LET row == SelectRow(tbl, h)
    IN  IF row = <<>> THEN <<>>
        ELSE <<[response |-> row[1].response, created_at |-> row[1].created_at]>>

\* DELETE FROM cache WHERE prompt_hash = ?
DeleteKey(tbl, h) == SelectSeq(tbl, LAMBDA r : r.prompt_hash # h)

\* Fault: the UPDATE has lost its WHERE
UpdateHit_all(tbl, h) ==
    [i \in DOMAIN tbl |-> [tbl[i] EXCEPT !.hit_count = @ + 1]]

\* UPDATE cache SET hit_count = hit_count + 1 WHERE prompt_hash = ?
UpdateHit(tbl, h) ==
    [i \in DOMAIN tbl |->
        IF tbl[i].prompt_hash = h THEN [tbl[i] EXCEPT !.hit_count = @ + 1] ELSE tbl[i]]

\* Fault: a plain INSERT that keeps the row it should replace
InsertOnly(tbl, row) == Append(tbl, row)

\* INSERT OR REPLACE INTO cache ...: prompt_hash is the PRIMARY KEY
InsertOrReplace(tbl, row) == Append(DeleteKey(tbl, row.prompt_hash), row)

\* DELETE FROM cache WHERE created_at < ?
DeleteOlder(tbl, cutoff) == SelectSeq(tbl, LAMBDA r : ~(r.created_at < cutoff))

\* The position of row i in ORDER BY created_at ASC, read through idx_created:
\* the rows before it are the older ones, and of the equally old the earlier rowids.
Rank(tbl, i) ==
    Cardinality({ j \in DOMAIN tbl :
        \/ tbl[j].created_at < tbl[i].created_at
        \/ tbl[j].created_at = tbl[i].created_at /\ j < i })

\* The position of row i in ORDER BY created_at DESC
RankNewestFirst(tbl, i) ==
    Cardinality({ j \in DOMAIN tbl :
        \/ tbl[j].created_at > tbl[i].created_at
        \/ tbl[j].created_at = tbl[i].created_at /\ j > i })

\* DELETE FROM cache WHERE prompt_hash IN (SELECT ... ORDER BY created_at ASC LIMIT ?)
DeleteOldest(tbl, excess) ==
    LET keep == { i \in DOMAIN tbl : ~(Rank(tbl, i) < excess) }
        F[i \in 0..Len(tbl)] ==
            IF i = 0 THEN <<>>
            ELSE IF i \in keep THEN Append(F[i - 1], tbl[i]) ELSE F[i - 1]
    IN  F[Len(tbl)]

\* Fault: the same DELETE with ORDER BY created_at DESC
DeleteNewest(tbl, excess) ==
    LET keep == { i \in DOMAIN tbl : ~(RankNewestFirst(tbl, i) < excess) }
        F[i \in 0..Len(tbl)] ==
            IF i = 0 THEN <<>>
            ELSE IF i \in keep THEN Append(F[i - 1], tbl[i]) ELSE F[i - 1]
    IN  F[Len(tbl)]

(***************************************************************************)
(* LLMCache                                                                *)
(***************************************************************************)
\* age_hours > self.max_age_hours
Expired(row, t) == t - row.created_at > MaxAgeHours

\* LLMCache._cleanup at time t: the COUNT(*) it reads after the age pass
CleanupCount(tbl, t) == Len(DeleteOlder(tbl, t - MaxAgeHours))

\* Fault: _cleanup evicts the newest rows
LLMCache_cleanup_newest(tbl, t) ==
    LET cutoff == t - MaxAgeHours
        fresh == DeleteOlder(tbl, cutoff)
        count == Len(fresh)
    IN  IF count > MaxEntries THEN DeleteNewest(fresh, count - MaxEntries) ELSE fresh

\* Fault: _cleanup tolerates one row more than max_entries
LLMCache_cleanup_lax(tbl, t) ==
    LET cutoff == t - MaxAgeHours
        fresh == DeleteOlder(tbl, cutoff)
        count == Len(fresh)
    IN  IF count > MaxEntries + 1 THEN DeleteOldest(fresh, count - MaxEntries) ELSE fresh

\* LLMCache._cleanup at time t: the table it leaves
LLMCache_cleanup(tbl, t) ==
    LET cutoff == t - MaxAgeHours
        fresh == DeleteOlder(tbl, cutoff)
        count == Len(fresh)
    IN  IF count > MaxEntries THEN DeleteOldest(fresh, count - MaxEntries) ELSE fresh

\* Fault: get leaves the expired row in the table
GetStore_keep(tbl, t, h) ==
    LET row == SelectRow(tbl, h)
    IN  IF row = <<>> THEN tbl
        ELSE IF Expired(row[1], t) THEN tbl
        ELSE UpdateHit(tbl, h)

\* LLMCache.get on an open connection: the table it leaves
GetStore(tbl, t, h) ==
    LET row == SelectRow(tbl, h)
    IN  IF row = <<>> THEN tbl
        ELSE IF Expired(row[1], t) THEN DeleteKey(tbl, h)
        ELSE UpdateHit(tbl, h)

\* LLMCache.set on an open connection, the row written at time t and _cleanup
\* run at time t2: the table it leaves
SetStore(tbl, r, content, t, t2) ==
    LLMCache_cleanup(InsertOrReplace(tbl, Row(KeyOf(r), content, t)), t2)

\* LLMCache.get on an open connection: what it returns
GetResult(tbl, t, r) ==
    LET row == SelectRow(tbl, KeyOf(r))
    IN  IF row = <<>> THEN <<>>
        ELSE IF Expired(row[1], t) THEN <<>>
        ELSE <<AsyncLLMResponse(row[1].response, r.model, r.temperature, TRUE)>>

\* The record of an operation: its arguments, the row that get fetched, the
\* response that set replaced, the COUNT(*) that _cleanup read, and what get
\* returned.
Last(op, r, content, row, count, out) ==
    [op |-> op, req |-> r, content |-> content, row |-> row, count |-> count, out |-> out]

\* The response of the row that INSERT OR REPLACE replaces, if there is one
Replaced(tbl, h) ==
    LET row == SelectRow(tbl, h)
    IN  IF row = <<>> THEN <<>> ELSE <<[response |-> row[1].response]>>

NoReq == [prompt |-> "", model |-> "", temperature |-> 0]

\* SELECT SUM(hit_count) FROM cache
TotalHits(tbl) ==
    LET F[i \in 0..Len(tbl)] == IF i = 0 THEN 0 ELSE F[i - 1] + tbl[i].hit_count
    IN  F[Len(tbl)]

\* The model counts the hits of the rows in the table no further than MaxHits.
HitCountable(tbl, t, h) ==
    LET row == SelectRow(tbl, h)
    IN  IF row = <<>> THEN TRUE
        ELSE IF Expired(row[1], t) THEN TRUE
        ELSE TotalHits(tbl) < MaxHits

\* LLMCache.get(prompt, model, temperature)
LLMCache_get(r) ==
    /\ HitCountable(store, now, KeyOf(r))
    /\ IF ~conn
          THEN /\ store' = store
               /\ last' = Last("get", r, "", <<>>, 0, <<>>)
          ELSE /\ store' = GetStore(store, now, KeyOf(r))
               /\ last' = Last("get", r, "", Fetch(store, KeyOf(r)), 0, GetResult(store, now, r))
    /\ UNCHANGED <<conn, now, exceptCache>>

\* LLMCache.set(prompt, model, temperature, response); the clock may advance
\* between the row's time.time() and _cleanup's.
LLMCache_set(r, content) ==
    /\ IF ~conn
          THEN /\ UNCHANGED <<store, now>>
               /\ last' = Last("set", r, content, <<>>, 0, <<>>)
          ELSE \E d \in 0..1 :
               /\ now + d <= MaxTime
               /\ now' = now + d
               /\ store' = SetStore(store, r, content, now, now + d)
               /\ last' = Last("set", r, content, Replaced(store, KeyOf(r)),
                               CleanupCount(InsertOrReplace(store, Row(KeyOf(r), content, now)),
                                            now + d),
                               <<>>)
    /\ UNCHANGED <<conn, exceptCache>>

\* LLMCache.close()
LLMCache_close ==
    /\ conn
    /\ conn' = FALSE
    /\ last' = Last("close", NoReq, "", <<>>, 0, <<>>)
    /\ UNCHANGED <<store, now, exceptCache>>

\* LLMCache(db_path) on the same file: __post_init__ -> _ensure_db
LLMCache_ensure_db ==
    /\ ~conn
    /\ conn' = TRUE
    /\ last' = Last("open", NoReq, "", <<>>, 0, <<>>)
    /\ UNCHANGED <<store, now, exceptCache>>

\* SELECT COUNT(*), SUM(hit_count), AVG(hit_count) FROM cache, fetchone():
\* the aggregates of no rows are NULL, the average the pair of sum and count
Aggregates(tbl) ==
    [entries |-> Len(tbl),
     total_hits |-> IF tbl = <<>> THEN <<>> ELSE <<TotalHits(tbl)>>,
     avg_hits |-> IF tbl = <<>> THEN <<>> ELSE <<TotalHits(tbl), Len(tbl)>>]

\* LLMCache.stats(): row[1] or 0, row[2] or 0.0
stats(tbl, connected) ==
    IF ~connected THEN [error |-> "not connected"]
    ELSE [entries |-> Aggregates(tbl).entries,
          total_hits |-> IF Aggregates(tbl).total_hits = <<>> THEN 0
                         ELSE Aggregates(tbl).total_hits[1],
          avg_hits |-> IF Aggregates(tbl).avg_hits = <<>> THEN <<0, 1>>
                       ELSE Aggregates(tbl).avg_hits]

\* LLMCache.stats()
LLMCache_stats ==
    /\ last' = Last("stats", NoReq, "", <<>>, 0, <<stats(store, conn)>>)
    /\ UNCHANGED <<store, conn, now, exceptCache>>

\* The wall clock advances between two operations.
Tick ==
    /\ now < MaxTime
    /\ now' = now + 1
    /\ last' = Last("tick", NoReq, "", <<>>, 0, <<>>)
    /\ UNCHANGED <<store, conn, exceptCache>>

Threads == {"t1", "t2"}

\* A thread's place and locals: the arguments, the row fetched, the excess computed
Local(pc, r, content, row, excess) ==
    [pc |-> pc, req |-> r, content |-> content, row |-> row, excess |-> excess]

Idle == Local("idle", NoReq, "", <<>>, 0)

TableInit ==
    /\ store = <<>>
    /\ conn = TRUE
    /\ now = 0
    /\ last = Last("open", NoReq, "", <<>>, 0, <<>>)

\* What a coroutine ends with: a response returned or an exception raised
Returned(response) == [exc |-> "", resp |-> <<response>>]

Raised(exc) == [exc |-> exc, resp |-> <<>>]

\* A call_deepseek_cached: its place and arguments, how often it called
\* call_deepseek_async and how often that posted to the backend, whether it
\* called cache.set, and how it ended.
Call(pc, r, use_cache, invokes, posts, wrote, out) ==
    [pc |-> pc, req |-> r, use_cache |-> use_cache,
     invokes |-> invokes, posts |-> posts, wrote |-> wrote, out |-> out]

NoCall == Call("idle", NoReq, FALSE, 0, 0, FALSE, <<>>)

\* A call_parallel: its place, the requests, what the backend will do with
\* each, each task's place and result, the order of completion, the list returned.
NoParallel ==
    [pc |-> "idle", reqs |-> <<>>, fate |-> <<>>, task |-> <<>>, outcome |-> <<>>,
     order |-> <<>>, results |-> <<>>]

NoAsync ==
    /\ call = NoCall
    /\ par = NoParallel

(***************************************************************************)
(* optimizations.py: the state after construction                          *)
(***************************************************************************)
Callers == {"a", "b"}

\* SubprocessWorker(process, last_used, in_use): of the process, whether it
\* has exited (poll() is not None); with the worker, the callers that got it
\* from acquire and have not released it.
SubprocessWorker(exited, last_used, in_use, holders) ==
    [exited |-> exited, last_used |-> last_used, in_use |-> in_use, holders |-> holders]

\* A caller of the pool: where it is, the place in the list of the worker
\* acquire's loop stopped at (0: the loop ran to its end), cleanup's local `now`
Caller(pc, pick, t) == [pc |-> pc, pick |-> pick, now |-> t]

\* SubprocessPool(): __post_init__
PoolInit ==
    /\ workers = <<>>
    /\ signalled = <<>>
    /\ pool_lock = <<>>
    /\ caller = [t \in Callers |-> Caller("idle", 0, 0)]

\* TerminationHeuristics(min_steps, max_consecutive_failures,
\* max_similar_patches, min_success_rate); the rate is in percent
Config(min_steps, max_consecutive_failures, max_similar_patches, min_success_rate) ==
    [min_steps |-> min_steps, max_consecutive_failures |-> max_consecutive_failures,
     max_similar_patches |-> max_similar_patches, min_success_rate |-> min_success_rate]

\* The defaults of the dataclass
DefaultConfig == Config(3, 5, 3, 5)

\* __post_init__ and reset: an empty deque and the three counters at 0
Fresh ==
    [patch_hashes |-> <<>>, consecutive_failures |-> 0,
     total_attempts |-> 0, successful_attempts |-> 0]

HeurInit ==
    /\ heur = Fresh
    /\ recorded = <<>>
    /\ verdict = <<>>

\* retry_with_backoff(max_retries, base_delay, max_delay, exponential_base,
\* retryable_exceptions); the exception classes by their names
RetryPolicy(max_retries, base_delay, max_delay, exponential_base, retryable_exceptions) ==
    [max_retries |-> max_retries, base_delay |-> base_delay, max_delay |-> max_delay,
     exponential_base |-> exponential_base, retryable_exceptions |-> retryable_exceptions]

DefaultPolicy == RetryPolicy(3, 1, 60, 2, {"Exception"})

\* The wrapper has not been called
NoRun ==
    [pc |-> "idle", attempt |-> 0, last_exception |-> <<>>, calls |-> 0,
     thrown |-> <<>>, slept |-> <<>>, outcome |-> <<>>]

RetryInit == retry = NoRun

\* memoize_with_ttl(ttl_seconds, maxsize)
MemoConfig(ttl_seconds, maxsize) == [ttl_seconds |-> ttl_seconds, maxsize |-> maxsize]

DefaultMemo == MemoConfig(300, 128)

\* A thread that is not in the wrapper and has not called it; `outer` is the
\* call of the wrapper whose func has made this call, if one has
NoMemoCall ==
    [pc |-> "idle", form |-> <<>>, now |-> 0, timestamp |-> <<>>, value |-> <<>>,
     oldest_key |-> <<>>, result |-> <<>>, outer |-> <<>>]

\* decorator(func): an empty dict, a free lock
MemoInit ==
    /\ cache = <<>>
    /\ lock = <<>>
    /\ memo_call = [t \in Callers |-> NoMemoCall]

\* The resilience primitives: decorated functions nobody has called
ResInit ==
    /\ policy = DefaultPolicy
    /\ RetryInit
    /\ memo = DefaultMemo
    /\ MemoInit

OptInit ==
    /\ PoolInit
    /\ config = DefaultConfig
    /\ HeurInit
    /\ ResInit

CacheInit ==
    /\ TableInit
    /\ OptInit
    /\ thr = [t \in Threads |-> Idle]
    /\ httpx_available = TRUE
    /\ api_key = TRUE
    /\ NoAsync

CacheNext ==
    \/ \E r \in Requests : LLMCache_get(r)
    \/ \E r \in Requests, c \in Contents : LLMCache_set(r, c)
    \/ LLMCache_close
    \/ LLMCache_ensure_db
    \/ Tick

\* The operations that bear on the hit counts: what a response says does
\* not, so every set writes the same content
HitsNext ==
    \/ \E r \in Requests : LLMCache_get(r)
    \/ \E r \in Requests : LLMCache_set(r, "x")
    \/ LLMCache_stats
    \/ LLMCache_close
    \/ LLMCache_ensure_db
    \/ Tick

\* Requests whose model or prompt holds the separator of the key: the model
\* "m:0.00" with the prompt "p", the model "m" with the prompt "0.00:p" (at
\* the temperatures 0.0 and 0.004, which format alike), and the model "m"
\* with the prompt "p"
KeyRequests ==
    { [prompt |-> "p", model |-> "m:0.00", temperature |-> 0],
      [prompt |-> "0.00:p", model |-> "m", temperature |-> 0],
      [prompt |-> "0.00:p", model |-> "m", temperature |-> 4],
      [prompt |-> "p", model |-> "m", temperature |-> 0] }

\* A response that quotes the model, the formatted temperature and the
\* prompt it answers
Echo(r) == "model=" \o r.model \o "|temperature=" \o TempFmt(r.temperature)
               \o "|prompt=" \o r.prompt

\* get and set with the requests of KeyRequests, every response stored
\* being the one that quotes its request
KeyNext ==
    \/ \E r \in KeyRequests : LLMCache_get(r)
    \/ \E r \in KeyRequests : LLMCache_set(r, Echo(r))
    \/ Tick

(***************************************************************************)
(* LLMCache shared by threads (check_same_thread=False). The class takes   *)
(* no lock; SQLite runs the statements of one connection one at a time,    *)
(* and every thread sees the statements of the others at once (one         *)
(* connection, one transaction), so a step is one statement and commit()   *)
(* changes nothing a thread can see.                                       *)
(***************************************************************************)
\* get: SELECT and fetchone(), then the age check on time.time()
get_select(t, r) ==
    /\ thr[t].pc = "idle"
    /\ TotalHits(store) < MaxHits
    /\ LET row == Fetch(store, KeyOf(r))
       IN  thr' = [thr EXCEPT ![t] =
                IF row = <<>> THEN Idle
                ELSE IF Expired(row[1], now) THEN Local("g_delete", r, "", row, 0)
                ELSE Local("g_update", r, "", row, 0)]
    /\ UNCHANGED <<cacheVars, asyncVars, optVars>>

\* get: DELETE FROM cache WHERE prompt_hash = ?, return None
get_delete(t) ==
    /\ thr[t].pc = "g_delete"
    /\ store' = DeleteKey(store, KeyOf(thr[t].req))
    /\ thr' = [thr EXCEPT ![t] = Idle]
    /\ UNCHANGED <<conn, now, last, asyncVars, optVars>>

\* get: UPDATE cache SET hit_count = hit_count + 1, return the response fetched
get_update(t) ==
    /\ thr[t].pc = "g_update"
    /\ store' = UpdateHit(store, KeyOf(thr[t].req))
    /\ thr' = [thr EXCEPT ![t] = Idle]
    /\ UNCHANGED <<conn, now, last, asyncVars, optVars>>

\* set: INSERT OR REPLACE ... created_at = time.time()
set_insert(t, r, content) ==
    /\ thr[t].pc = "idle"
    /\ store' = InsertOrReplace(store, Row(KeyOf(r), content, now))
    /\ thr' = [thr EXCEPT ![t] = Local("c_delete_old", r, content, <<>>, 0)]
    /\ UNCHANGED <<conn, now, last, asyncVars, optVars>>

\* _cleanup: DELETE FROM cache WHERE created_at < cutoff
cleanup_delete_old(t) ==
    /\ thr[t].pc = "c_delete_old"
    /\ store' = DeleteOlder(store, now - MaxAgeHours)
    /\ thr' = [thr EXCEPT ![t].pc = "c_count"]
    /\ UNCHANGED <<conn, now, last, asyncVars, optVars>>

\* _cleanup: SELECT COUNT(*), and excess = count - max_entries if count > max_entries
cleanup_count(t) ==
    /\ thr[t].pc = "c_count"
    /\ thr' = [thr EXCEPT ![t] =
            IF Len(store) > MaxEntries
               THEN [thr[t] EXCEPT !.pc = "c_delete_excess", !.excess = Len(store) - MaxEntries]
               ELSE Idle]
    /\ UNCHANGED <<cacheVars, asyncVars, optVars>>

\* _cleanup: DELETE ... ORDER BY created_at ASC LIMIT excess
cleanup_delete_excess(t) ==
    /\ thr[t].pc = "c_delete_excess"
    /\ store' = DeleteOldest(store, thr[t].excess)
    /\ thr' = [thr EXCEPT ![t] = Idle]
    /\ UNCHANGED <<conn, now, last, asyncVars, optVars>>

\* The wall clock advances while threads are at work.
ThreadTick ==
    /\ now < MaxTime
    /\ now' = now + 1
    /\ UNCHANGED <<store, conn, last, thr, asyncVars, optVars>>

ThreadNext ==
    \/ \E t \in Threads, r \in Requests : get_select(t, r)
    \/ \E t \in Threads : get_delete(t)
    \/ \E t \in Threads : get_update(t)
    \/ \E t \in Threads, r \in Requests, c \in Contents : set_insert(t, r, c)
    \/ \E t \in Threads : cleanup_delete_old(t)
    \/ \E t \in Threads : cleanup_count(t)
    \/ \E t \in Threads : cleanup_delete_excess(t)
    \/ ThreadTick

(***************************************************************************)
(* call_deepseek_async: one request to the backend. The backend's part is  *)
(* its fate (the POST succeeds, or fails with the named exception) and the *)
(* text of its reply, which names the prompt it answers.                   *)
(***************************************************************************)
Fates == {"ok", "HTTPStatusError"}

\* The content of the response returned when there is no API key
MockContent == "Mocked - no API key"

BackendContent(prompt, c) == prompt \o "/" \o c

\* Fault: the placeholder is marked as served from the cache
call_deepseek_async_enter_marked(r, httpx, key) ==
    IF ~httpx THEN <<Raised("RuntimeError")>>
    ELSE IF ~key
       THEN <<Returned(AsyncLLMResponse(MockContent, r.model, r.temperature, TRUE))>>
       ELSE <<>>

\* call_deepseek_async up to its await: how it ends there, or <<>> when it
\* has posted the request and waits for the reply
call_deepseek_async_enter(r, httpx, key) ==
    IF ~httpx THEN <<Raised("RuntimeError")>>
    ELSE IF ~key
       THEN <<Returned(AsyncLLMResponse(MockContent, r.model, r.temperature, FALSE))>>
       ELSE <<>>

\* call_deepseek_async from the reply on
call_deepseek_async_resume(r, fate, c) ==
    IF fate = "ok"
       THEN Returned(AsyncLLMResponse(BackendContent(r.prompt, c), r.model, r.temperature, FALSE))
       ELSE Raised(fate)

(***************************************************************************)
(* call_deepseek_cached, on an open cache, one call at a time              *)
(***************************************************************************)
\* Fault: the cached response is ignored
UseHit_never(use_cache, cached) == FALSE

\* if use_cache: cached = cache.get(...); if cached is not None: return cached
UseHit(use_cache, cached) == use_cache /\ cached # <<>>

\* Fault: the response is never written into the cache
ShouldStore_never(use_cache, response) == FALSE

\* if use_cache and cache and not response.cached
ShouldStore(use_cache, response) == use_cache /\ ~response.cached

\* The end of call_deepseek_cached with outcome o of call_deepseek_async:
\* the call record and the table
Finish(c, tbl, o, t) ==
    IF o.exc = "" /\ ShouldStore(c.use_cache, o.resp[1])
       THEN [call |-> [c EXCEPT !.pc = "done", !.wrote = TRUE, !.out = <<o>>],
             store |-> SetStore(tbl, c.req, o.resp[1].content, t, t)]
       ELSE [call |-> [c EXCEPT !.pc = "done", !.out = <<o>>], store |-> tbl]

\* call_deepseek_cached(prompt, temperature, model, use_cache) up to its await
call_deepseek_cached(r, use_cache) ==
    /\ call.pc # "awaiting"
    /\ use_cache => HitCountable(store, now, KeyOf(r))
    /\ LET cached == IF use_cache THEN GetResult(store, now, r) ELSE <<>>
           tbl == IF use_cache THEN GetStore(store, now, KeyOf(r)) ELSE store
           enter == call_deepseek_async_enter(r, httpx_available, api_key)
       IN  IF UseHit(use_cache, cached)
              THEN /\ call' = Call("done", r, use_cache, 0, 0, FALSE, <<Returned(cached[1])>>)
                   /\ store' = tbl
              ELSE IF enter = <<>>
              THEN /\ call' = Call("awaiting", r, use_cache, 1, 1, FALSE, <<>>)
                   /\ store' = tbl
              ELSE LET end == Finish(Call("entered", r, use_cache, 1, 0, FALSE, <<>>),
                                     tbl, enter[1], now)
                   IN  /\ call' = end.call
                       /\ store' = end.store
    /\ UNCHANGED <<conn, now, last, thr, httpx_available, api_key, par, optVars>>

\* call_deepseek_cached from the backend's reply on
cached_resume(fate, c) ==
    /\ call.pc = "awaiting"
    /\ LET end == Finish(call, store, call_deepseek_async_resume(call.req, fate, c), now)
       IN  /\ call' = end.call
           /\ store' = end.store
    /\ UNCHANGED <<conn, now, last, thr, httpx_available, api_key, par, optVars>>

\* DEEPSEEK_API_KEY is set or unset in os.environ
Configure ==
    /\ api_key' = ~api_key
    /\ UNCHANGED <<cacheVars, thr, httpx_available, call, par, optVars>>

\* The requests made through call_deepseek_cached: two that format to one
\* key, and one with a key of its own
InvokeRequests == { r \in Requests : r.temperature < 200 }

InvokeInit ==
    /\ TableInit
    /\ OptInit
    /\ thr = [t \in Threads |-> Idle]
    /\ httpx_available \in BOOLEAN
    /\ api_key \in BOOLEAN
    /\ NoAsync

InvokeNext ==
    \/ \E r \in InvokeRequests, u \in BOOLEAN : call_deepseek_cached(r, u)
    \/ \E f \in Fates, c \in Contents : cached_resume(f, c)
    \/ Configure
    \/ Tick

(***************************************************************************)
(* call_deepseek_cached on a cache whose database fails: a statement of    *)
(* cache.get or of cache.set raises sqlite3.OperationalError (the table    *)
(* is gone, the file is read-only, the disk fails). Neither LLMCache nor   *)
(* call_deepseek_cached has a handler, so the exception leaves the call.   *)
(***************************************************************************)
SqliteError == "sqlite3.OperationalError"

\* cached = cache.get(prompt, model, temperature) raises
cached_get_raises(r) ==
    /\ call.pc # "awaiting"
    /\ call' = Call("done", r, TRUE, 0, 0, FALSE, <<Raised(SqliteError)>>)
    /\ UNCHANGED <<cacheVars, thr, httpx_available, api_key, par, optVars>>

\* The get misses, call_deepseek_async returns without awaiting the backend,
\* and cache.set(prompt, model, temperature, response.content) raises
cached_set_raises(r) ==
    /\ call.pc # "awaiting"
    /\ HitCountable(store, now, KeyOf(r))
    /\ ~UseHit(TRUE, GetResult(store, now, r))
    /\ LET enter == call_deepseek_async_enter(r, httpx_available, api_key)
       IN  /\ enter # <<>>
           /\ enter[1].exc = ""
           /\ ShouldStore(TRUE, enter[1].resp[1])
    /\ call' = Call("done", r, TRUE, 1, 0, FALSE, <<Raised(SqliteError)>>)
    /\ store' = GetStore(store, now, KeyOf(r))
    /\ UNCHANGED <<conn, now, last, thr, httpx_available, api_key, par, optVars>>

\* The backend has replied, and cache.set(...) raises
cached_resume_set_raises(fate, c) ==
    /\ call.pc = "awaiting"
    /\ LET o == call_deepseek_async_resume(call.req, fate, c)
       IN  /\ o.exc = ""
           /\ ShouldStore(call.use_cache, o.resp[1])
    /\ call' = [call EXCEPT !.pc = "done", !.out = <<Raised(SqliteError)>>]
    /\ UNCHANGED <<cacheVars, thr, httpx_available, api_key, par, optVars>>

FaultyNext ==
    \/ \E r \in InvokeRequests, u \in BOOLEAN : call_deepseek_cached(r, u)
    \/ \E f \in Fates, c \in Contents : cached_resume(f, c)
    \/ \E r \in InvokeRequests : cached_get_raises(r)
    \/ \E r \in InvokeRequests : cached_set_raises(r)
    \/ \E f \in Fates, c \in Contents : cached_resume_set_raises(f, c)
    \/ Configure
    \/ Tick

(***************************************************************************)
(* call_parallel: one task per request, run by asyncio.gather on one event *)
(* loop. The tasks start in the order of the requests and end in any       *)
(* order; gather returns when the last has ended.                          *)
(***************************************************************************)
\* The (prompt, temperature) pairs given to call_parallel, with its model
ParRequests == { r \in Requests : r.temperature # 4 }

\* The text of the backend's reply in a call_parallel
ParReply == "x"

\* Fault: gather without return_exceptions
ReturnExceptions_off == FALSE

\* asyncio.gather(*tasks, return_exceptions=True)
ReturnExceptions == TRUE

\* Fault: the results in the order in which the tasks ended
gather_by_completion(outcome, order) ==
    [i \in DOMAIN outcome |-> outcome[order[i]][1]]

\* The list asyncio.gather returns: the tasks' results in the order of the tasks
gather(outcome, order) ==
    [i \in DOMAIN outcome |-> outcome[i][1]]

\* Task i has ended with o: gather notes it, and raises it to its caller at
\* once if it is an exception and return_exceptions is off
TaskEnds(p, i, o) ==
    [p EXCEPT !.task[i] = "done",
              !.outcome[i] = <<o>>,
              !.order = Append(@, i),
              !.pc = IF o.exc # "" /\ ~ReturnExceptions THEN "raised" ELSE @]

\* call_parallel(prompts, model): the coroutines are created and handed to gather
call_parallel(reqs, fates) ==
    /\ par.pc = "idle"
    /\ par' = [pc |-> "gathering", reqs |-> reqs, fate |-> fates,
               task |-> [i \in DOMAIN reqs |-> "created"],
               outcome |-> [i \in DOMAIN reqs |-> <<>>],
               order |-> <<>>, results |-> <<>>]
    /\ UNCHANGED <<cacheVars, thr, httpx_available, api_key, call, optVars>>

\* The event loop starts the next task: call_deepseek_async up to its await
task_start(i) ==
    /\ par.pc = "gathering"
    /\ i \in DOMAIN par.task
    /\ par.task[i] = "created"
    /\ \A j \in 1..(i - 1) : par.task[j] # "created"
    /\ LET enter == call_deepseek_async_enter(par.reqs[i], httpx_available, api_key)
       IN  par' = IF enter = <<>> THEN [par EXCEPT !.task[i] = "awaiting"]
                  ELSE TaskEnds(par, i, enter[1])
    /\ UNCHANGED <<cacheVars, thr, httpx_available, api_key, call, optVars>>

\* The backend's reply to task i arrives
task_complete(i) ==
    /\ par.pc = "gathering"
    /\ i \in DOMAIN par.task
    /\ par.task[i] = "awaiting"
    /\ par' = TaskEnds(par, i,
                  call_deepseek_async_resume(par.reqs[i], par.fate[i], ParReply))
    /\ UNCHANGED <<cacheVars, thr, httpx_available, api_key, call, optVars>>

\* All tasks have ended: gather returns, and call_parallel returns its list
gather_return ==
    /\ par.pc = "gathering"
    /\ \A i \in DOMAIN par.task : par.task[i] = "done"
    /\ par' = [par EXCEPT !.pc = "done", !.results = gather(par.outcome, par.order)]
    /\ UNCHANGED <<cacheVars, thr, httpx_available, api_key, call, optVars>>

ParallelNext ==
    \/ \E n \in 0..MaxParallel : \E reqs \in [1..n -> ParRequests], fates \in [1..n -> Fates] :
          call_parallel(reqs, fates)
    \/ \E i \in 1..MaxParallel : task_start(i)
    \/ \E i \in 1..MaxParallel : task_complete(i)
    \/ gather_return

(***************************************************************************)
(* SubprocessPool, shared by the callers of Callers. Every operation takes *)
(* self._lock for its whole body. acquire is two steps under the lock: the *)
(* loop over the workers, then the marking or the spawning; the bodies of  *)
(* release, cleanup and shutdown are one step each. A process may exit at  *)
(* any moment, whoever holds the lock.                                     *)
(***************************************************************************)
\* worker.process.poll() is None
Poll(w) == ~w.exited

\* Fault: no lock is taken
LockFree_off(l) == TRUE

\* with self._lock: the lock can be taken

LockFree(l) == l = <<>>

\* Fault: the loop does not poll the process
FirstAvailable_unpolled(ws) ==
    LET free == { i \in DOMAIN ws : ~ws[i].in_use }
    IN  IF free = {} THEN 0 ELSE CHOOSE i \in free : \A j \in free : i <= j

\* Fault: the loop stops at a worker only when the list is full
FirstAvailable_full(ws) ==
    LET free == { i \in DOMAIN ws : ~ws[i].in_use /\ Poll(ws[i]) }
    IN  IF free = {} \/ Len(ws) < MaxWorkers THEN 0 ELSE CHOOSE i \in free : \A j \in free : i <= j

\* The loop of acquire: the place of the first worker that is not in use and
\* whose process has not exited, 0 when there is none
FirstAvailable(ws) ==
    LET free == { i \in DOMAIN ws : ~ws[i].in_use /\ Poll(ws[i]) }
    IN  IF free = {} THEN 0 ELSE CHOOSE i \in free : \A j \in free : i <= j

\* Fault: the limit is tested with <=
BelowLimit_lax(ws) == Len(ws) <= MaxWorkers

\* len(self._workers) < self.max_workers

BelowLimit(ws) == Len(ws) < MaxWorkers

\* acquire: the lock is taken and the loop runs
acquire_scan(t) ==
    /\ caller[t].pc = "idle"
    /\ LockFree(pool_lock)
    /\ pool_lock' = <<t>>
    /\ caller' = [caller EXCEPT ![t] = Caller("acquire", FirstAvailable(workers), 0)]
    /\ signalled' = <<>>
    /\ UNCHANGED <<workers, now, heurVars, resVars, store, conn, last, thr, asyncVars>>

\* Fault: acquire drops the workers whose process has exited before it
\* tests the limit
acquire_take_pruning(t) ==
    /\ caller[t].pc = "acquire"
    /\ pool_lock' = <<>>
    /\ caller' = [caller EXCEPT ![t] = Caller("idle", 0, 0)]
    /\ LET alive == SelectSeq(workers, LAMBDA w : w.in_use \/ ~w.exited)
       IN  IF caller[t].pick \in DOMAIN workers
           THEN workers' = [workers EXCEPT ![caller[t].pick] =
                     SubprocessWorker(@.exited, now, TRUE, @.holders \cup {t})]
           ELSE IF BelowLimit(alive)
           THEN workers' = Append(alive, SubprocessWorker(FALSE, now, TRUE, {t}))
           ELSE workers' = alive
    /\ signalled' = <<>>
    /\ UNCHANGED <<now, heurVars, resVars, store, conn, last, thr, asyncVars>>

\* acquire: the worker found is marked (in_use = True, last_used =
\* time.time()) and returned, or one is spawned below the limit and returned,
\* or None is returned; the lock is given back
acquire_take(t) ==
    /\ caller[t].pc = "acquire"
    /\ pool_lock' = <<>>
    /\ caller' = [caller EXCEPT ![t] = Caller("idle", 0, 0)]
    /\ IF caller[t].pick \in DOMAIN workers
          THEN workers' = [workers EXCEPT ![caller[t].pick] =
                    SubprocessWorker(@.exited, now, TRUE, @.holders \cup {t})]
          ELSE IF BelowLimit(workers)
          THEN workers' = Append(workers, SubprocessWorker(FALSE, now, TRUE, {t}))
          ELSE UNCHANGED workers
    /\ signalled' = <<>>
    /\ UNCHANGED <<now, heurVars, resVars, store, conn, last, thr, asyncVars>>

\* release(worker), by a caller that acquired the worker: in_use = False,
\* last_used = time.time()
release(t, i) ==
    /\ caller[t].pc = "idle"
    /\ i \in DOMAIN workers
    /\ t \in workers[i].holders
    /\ LockFree(pool_lock)
    /\ workers' = [workers EXCEPT ![i] =
            SubprocessWorker(@.exited, now, FALSE, @.holders \ {t})]
    /\ signalled' = <<>>
    /\ UNCHANGED <<pool_lock, caller, now, heurVars, resVars, store, conn, last, thr, asyncVars>>

\* cleanup: now = time.time(), before the lock
cleanup_enter(t) ==
    /\ caller[t].pc = "idle"
    /\ caller' = [caller EXCEPT ![t] = Caller("cleanup", 0, now)]
    /\ signalled' = <<>>
    /\ UNCHANGED <<workers, pool_lock, now, heurVars, resVars, store, conn, last, thr, asyncVars>>

\* Fault: cleanup does not look at in_use
Reapable_busy(w, t) == t - w.last_used > MaxIdleTime

\* cleanup's test of one worker

Reapable(w, t) == ~w.in_use /\ t - w.last_used > MaxIdleTime

\* How a process is stopped: terminate() and wait(timeout=5) go through, or
\* one of them raises and kill() follows. terminate() and wait() on a
\* process that has exited return at once.
Stops == {"terminate", "kill"}

\* try: terminate(); wait(timeout=5) except: kill(), on each worker of ws in
\* turn; how[i] tells what the i-th needs if its process is running
Terminate(ws, how) ==
    [i \in DOMAIN ws |->
        [worker |-> ws[i], stop |-> IF ws[i].exited THEN "terminate" ELSE how[i]]]

\* cleanup: the body, under the lock
cleanup_body(t) ==
    /\ caller[t].pc = "cleanup"
    /\ LockFree(pool_lock)
    /\ workers' = SelectSeq(workers, LAMBDA w : ~Reapable(w, caller[t].now))
    /\ LET reaped == SelectSeq(workers, LAMBDA w : Reapable(w, caller[t].now))
       IN  \E how \in [DOMAIN reaped -> Stops] : signalled' = Terminate(reaped, how)
    /\ caller' = [caller EXCEPT ![t] = Caller("idle", 0, 0)]
    /\ UNCHANGED <<pool_lock, now, heurVars, resVars, store, conn, last, thr, asyncVars>>

\* Fault: shutdown stops the idle workers only
Doomed_idle(ws) == SelectSeq(ws, LAMBDA w : ~w.in_use)

\* The workers shutdown stops

Doomed(ws) == ws

\* shutdown; the callers keep the workers they hold, which are no longer the pool's
shutdown(t) ==
    /\ caller[t].pc = "idle"
    /\ LockFree(pool_lock)
    /\ \E how \in [DOMAIN Doomed(workers) -> Stops] : signalled' = Terminate(Doomed(workers), how)
    /\ workers' = <<>>
    /\ UNCHANGED <<pool_lock, caller, now, heurVars, resVars, store, conn, last, thr, asyncVars>>

\* The process of a worker of the pool exits by itself
process_exit(i) ==
    /\ i \in DOMAIN workers
    /\ ~workers[i].exited
    /\ workers' = [workers EXCEPT ![i].exited = TRUE]
    /\ signalled' = <<>>
    /\ UNCHANGED <<pool_lock, caller, now, heurVars, resVars, store, conn, last, thr, asyncVars>>

\* The wall clock advances
PoolTick ==
    /\ now < MaxPoolTime
    /\ now' = now + 1
    /\ signalled' = <<>>
    /\ UNCHANGED <<workers, pool_lock, caller, heurVars, resVars, store, conn, last, thr, asyncVars>>

PoolNext ==
    \/ \E t \in Callers : acquire_scan(t)
    \/ \E t \in Callers : acquire_take(t)
    \/ \E t \in Callers, i \in 1..MaxWorkers : release(t, i)
    \/ \E t \in Callers : cleanup_enter(t)
    \/ \E t \in Callers : cleanup_body(t)
    \/ \E t \in Callers : shutdown(t)
    \/ \E i \in 1..MaxWorkers : process_exit(i)
    \/ PoolTick

(***************************************************************************)
(* SubprocessPool statement by statement: where PoolNext takes the body    *)
(* of cleanup or of shutdown, and the spawning in acquire, as one step,    *)
(* here every call on a process is a step of its own, with self._lock      *)
(* taken when the with statement is entered and given back when it is      *)
(* left. A call on a process returns or raises; terminate() and wait() on  *)
(* a process that has exited return at once. `signalled` holds the call    *)
(* just made on a process and whether it raised.                           *)
(***************************************************************************)
PoolOps == {"cleanup", "shutdown"}

\* Where a caller is inside cleanup or shutdown
At(op, where) == op \o ":" \o where

\* The call just made on the process of worker w
ProcessCall(w, stop, raised) == <<[worker |-> w, stop |-> stop, raised |-> raised]>>

\* What the rest of the pool's state does in a step of one operation
PoolFrame == UNCHANGED <<now, heurVars, resVars, store, conn, last, thr, asyncVars>>

\* acquire, after the loop: the worker found is marked and returned, or None
\* is returned at the limit
acquire_return(t) ==
    /\ caller[t].pick # 0 \/ ~BelowLimit(workers)
    /\ acquire_take(t)

\* acquire, below the limit: self._create_worker() starts subprocess.Popen
acquire_create(t) ==
    /\ caller[t].pc = "acquire"
    /\ caller[t].pick = 0
    /\ BelowLimit(workers)
    /\ caller' = [caller EXCEPT ![t] = Caller("spawn", 0, 0)]
    /\ signalled' = <<>>
    /\ UNCHANGED <<workers, pool_lock>>
    /\ PoolFrame

\* Popen has returned: the worker is appended, in use, and returned; or
\* Popen has raised (OSError), which leaves acquire through the with statement
acquire_created(t, raises) ==
    /\ caller[t].pc = "spawn"
    /\ workers' = IF raises THEN workers
                  ELSE Append(workers, SubprocessWorker(FALSE, now, TRUE, {t}))
    /\ pool_lock' = <<>>
    /\ caller' = [caller EXCEPT ![t] = Caller("idle", 0, 0)]
    /\ signalled' = <<>>
    /\ PoolFrame

\* cleanup: with self._lock, after `now` has been read
cleanup_lock(t) ==
    /\ caller[t].pc = "cleanup"
    /\ LockFree(pool_lock)
    /\ pool_lock' = <<t>>
    /\ caller' = [caller EXCEPT ![t] = Caller(At("cleanup", "loop"), 1, caller[t].now)]
    /\ signalled' = <<>>
    /\ UNCHANGED workers
    /\ PoolFrame

\* shutdown: with self._lock
shutdown_lock(t) ==
    /\ caller[t].pc = "idle"
    /\ LockFree(pool_lock)
    /\ pool_lock' = <<t>>
    /\ caller' = [caller EXCEPT ![t] = Caller(At("shutdown", "loop"), 1, 0)]
    /\ signalled' = <<>>
    /\ UNCHANGED workers
    /\ PoolFrame

\* The workers the loop of op stops: cleanup those it finds reapable,
\* shutdown all
Stopped(op, w, t) == op = "shutdown" \/ Reapable(w, t)

\* Fault: a worker whose process could not be stopped gracefully stays in the pool
Remaining_unless_failed(op, ws, t) ==
    IF op = "shutdown" THEN <<>>
    ELSE SelectSeq(ws, LAMBDA w : ~Reapable(w, t) \/ ~w.exited)

\* self._workers = active, or = []
Remaining(op, ws, t) ==
    IF op = "shutdown" THEN <<>>
    ELSE SelectSeq(ws, LAMBDA w : ~Reapable(w, t))

\* for worker in self._workers: the next worker is kept (cleanup's else
\* branch) or is about to be stopped; after the last one the list is
\* assigned, the with statement is left and the operation returns
loop_next(t, op) ==
    /\ caller[t].pc = At(op, "loop")
    /\ IF caller[t].pick > Len(workers)
       THEN /\ workers' = Remaining(op, workers, caller[t].now)
            /\ pool_lock' = <<>>
            /\ caller' = [caller EXCEPT ![t] = Caller("idle", 0, 0)]
       ELSE /\ caller' = [caller EXCEPT ![t] =
                    IF Stopped(op, workers[caller[t].pick], caller[t].now)
                    THEN Caller(At(op, "terminate"), caller[t].pick, caller[t].now)
                    ELSE Caller(At(op, "loop"), caller[t].pick + 1, caller[t].now)]
            /\ UNCHANGED <<workers, pool_lock>>
    /\ signalled' = <<>>
    /\ PoolFrame

\* worker.process.terminate(): it returns, or it raises and except
\* Exception: try: worker.process.kill() follows
process_terminate(t, op, raises) ==
    /\ caller[t].pc = At(op, "terminate")
    /\ raises => ~workers[caller[t].pick].exited
    /\ caller' = [caller EXCEPT ![t] =
            IF raises THEN Caller(At(op, "kill"), caller[t].pick, caller[t].now)
            ELSE Caller(At(op, "wait"), caller[t].pick, caller[t].now)]
    /\ signalled' = ProcessCall(workers[caller[t].pick], "terminate", raises)
    /\ UNCHANGED <<workers, pool_lock>>
    /\ PoolFrame

\* worker.process.wait(timeout=5): the process has exited when it returns;
\* it raises TimeoutExpired when the process has not exited in time
process_wait(t, op, raises) ==
    /\ caller[t].pc = At(op, "wait")
    /\ raises => ~workers[caller[t].pick].exited
    /\ caller' = [caller EXCEPT ![t] =
            IF raises THEN Caller(At(op, "kill"), caller[t].pick, caller[t].now)
            ELSE Caller(At(op, "loop"), caller[t].pick + 1, caller[t].now)]
    /\ workers' = IF raises THEN workers ELSE [workers EXCEPT ![caller[t].pick].exited = TRUE]
    /\ signalled' = ProcessCall(workers[caller[t].pick], "wait", raises)
    /\ UNCHANGED pool_lock
    /\ PoolFrame

\* worker.process.kill(): it returns, or it raises and except Exception: pass
\* swallows the exception; the loop goes on either way
process_kill(t, op, raises) ==
    /\ caller[t].pc = At(op, "kill")
    /\ caller' = [caller EXCEPT ![t] = Caller(At(op, "loop"), caller[t].pick + 1, caller[t].now)]
    /\ signalled' = ProcessCall(workers[caller[t].pick], "kill", raises)
    /\ UNCHANGED <<workers, pool_lock>>
    /\ PoolFrame

PoolStepsNext ==
    \/ \E t \in Callers : acquire_scan(t)
    \/ \E t \in Callers : acquire_return(t)
    \/ \E t \in Callers : acquire_create(t)
    \/ \E t \in Callers, raises \in BOOLEAN : acquire_created(t, raises)
    \/ \E t \in Callers, i \in 1..MaxWorkers : release(t, i)
    \/ \E t \in Callers : cleanup_enter(t)
    \/ \E t \in Callers : cleanup_lock(t)
    \/ \E t \in Callers : shutdown_lock(t)
    \/ \E t \in Callers, op \in PoolOps : loop_next(t, op)
    \/ \E t \in Callers, op \in PoolOps, raises \in BOOLEAN : process_terminate(t, op, raises)
    \/ \E t \in Callers, op \in PoolOps, raises \in BOOLEAN : process_wait(t, op, raises)
    \/ \E t \in Callers, op \in PoolOps, raises \in BOOLEAN : process_kill(t, op, raises)
    \/ \E i \in 1..MaxWorkers : process_exit(i)
    \/ PoolTick

\* The pool with cleanup statement by statement, acquire and release as in
\* PoolNext, and no shutdown
CleanupNext ==
    \/ \E t \in Callers : acquire_scan(t)
    \/ \E t \in Callers : acquire_take(t)
    \/ \E t \in Callers, i \in 1..MaxWorkers : release(t, i)
    \/ \E t \in Callers : cleanup_enter(t)
    \/ \E t \in Callers : cleanup_lock(t)
    \/ \E t \in Callers : loop_next(t, "cleanup")
    \/ \E t \in Callers, raises \in BOOLEAN : process_terminate(t, "cleanup", raises)
    \/ \E t \in Callers, raises \in BOOLEAN : process_wait(t, "cleanup", raises)
    \/ \E t \in Callers, raises \in BOOLEAN : process_kill(t, "cleanup", raises)
    \/ \E i \in 1..MaxWorkers : process_exit(i)
    \/ PoolTick

(***************************************************************************)
(* TerminationHeuristics, used by the outer loop (one thread).             *)
(***************************************************************************)
\* The diffs the outer loop records
Diffs == {"d1", "d2"}

\* The configurations: min_steps 0 or 3, max_consecutive_failures 2 or 3,
\* max_similar_patches 2, min_success_rate 0.05 or 0.5
Configs ==
    { Config(ms, mcf, 2, msr) : ms \in {0, 3}, mcf \in {2, 3}, msr \in {5, 50} }

\* hashlib.sha256(diff.encode()).hexdigest()[:16]: a digest, not the diff
patch_hash(diff) == "sha256/16:" \o diff

\* Fault: a full deque refuses the new element
DequeAppend_refuse(q, x) == IF Len(q) >= MaxLen THEN q ELSE Append(q, x)

\* deque(maxlen=MaxLen).append(x): at maxlen the element at the left end is discarded
DequeAppend(q, x) == IF Len(q) >= MaxLen THEN Append(Tail(q), x) ELSE Append(q, x)

\* Fault: every attempt counts as a successful one
Count_eager(h, success) ==
    [h EXCEPT !.total_attempts = @ + 1,
              !.successful_attempts = @ + 1,
              !.consecutive_failures = IF success THEN 0 ELSE @ + 1]

\* Fault: a success does not reset _consecutive_failures
Count_sticky(h, success) ==
    [h EXCEPT !.total_attempts = @ + 1,
              !.successful_attempts = IF success THEN @ + 1 ELSE @,
              !.consecutive_failures = IF success THEN @ ELSE @ + 1]

\* Fault: a failed attempt is not counted in _total_attempts
Count_drift(h, success) ==
    [h EXCEPT !.total_attempts = IF success THEN @ + 1 ELSE @,
              !.successful_attempts = IF success THEN @ + 1 ELSE @,
              !.consecutive_failures = IF success THEN 0 ELSE @ + 1]

\* The three counters after one more attempt
Count(h, success) ==
    [h EXCEPT !.total_attempts = @ + 1,
              !.successful_attempts = IF success THEN @ + 1 ELSE @,
              !.consecutive_failures = IF success THEN 0 ELSE @ + 1]

\* record_attempt(diff, success)
Recorded(h, diff, success) ==
    [Count(h, success) EXCEPT !.patch_hashes = DequeAppend(@, patch_hash(diff))]

record_attempt(diff, success) ==
    /\ Len(recorded) < MaxAttempts
    /\ heur' = Recorded(heur, diff, success)
    /\ recorded' = Append(recorded, [diff |-> diff, success |-> success])
    /\ verdict' = <<>>
    /\ UNCHANGED <<config, poolVars, cacheVars, thr, asyncVars, resVars>>

\* list(self._patch_hashes)[-n:]; for n = 0 the slice [-0:] is the whole list
Recent_whole(q, n) == q

Recent(q, n) == IF n = 0 THEN q ELSE SubSeq(q, Len(q) - n + 1, Len(q))

\* f"{rate:.1%}" for rate = s / t: the rate in percent, rounded to one
\* decimal (no s / t with t < 16 lies halfway between two)
RateFmt(succ, total) ==
    LET permille == (2000 * succ + total) \div (2 * total)
    IN  ToString(permille \div 10) \o "." \o ToString(permille % 10) \o "%"

\* Fault: the run of failures is never tested
TooManyFailures_never(c, h) == FALSE

TooManyFailures_late(c, h) ==
    h.consecutive_failures > c.max_consecutive_failures

\* The test of the consecutive failures
TooManyFailures(c, h) ==
    h.consecutive_failures >= c.max_consecutive_failures

\* should_terminate(): the tuple returned, or the exception of the division
\* when _total_attempts is 0 and min_steps lets the rate be computed
should_terminate(c, h) ==
    IF TooManyFailures(c, h)
    THEN Returned(<<TRUE, "Too many consecutive failures ("
                            \o ToString(h.consecutive_failures) \o ")">>)
    ELSE IF /\ Len(h.patch_hashes) >= c.max_similar_patches
            /\ Cardinality({ Recent(h.patch_hashes, c.max_similar_patches)[i] :
                    i \in DOMAIN Recent(h.patch_hashes, c.max_similar_patches) }) = 1
    THEN Returned(<<TRUE, "Repeated identical patches">>)
    ELSE IF h.total_attempts >= c.min_steps
    THEN IF h.total_attempts = 0
         THEN Raised("ZeroDivisionError")
         ELSE IF h.successful_attempts * 100 < c.min_success_rate * h.total_attempts
         THEN Returned(<<TRUE, "Success rate too low ("
                     \o RateFmt(h.successful_attempts, h.total_attempts) \o ")">>)
         ELSE Returned(<<FALSE, "">>)
    ELSE Returned(<<FALSE, "">>)

\* The outer loop calls should_terminate()
TerminationHeuristics_should_terminate ==
    /\ verdict' = <<should_terminate(config, heur)>>
    /\ UNCHANGED <<config, heur, recorded, poolVars, cacheVars, thr, asyncVars, resVars>>

Reset_keeping_totals(h) ==
    [h EXCEPT !.patch_hashes = <<>>, !.consecutive_failures = 0]

\* The fields reset() leaves behind: the deque cleared, the counters zeroed
Reset(h) ==
    [h EXCEPT !.patch_hashes = <<>>,
              !.consecutive_failures = 0,
              !.total_attempts = 0,
              !.successful_attempts = 0]

\* reset(); what the last should_terminate() returned stays returned
TerminationHeuristics_reset ==
    /\ heur' = Reset(heur)
    /\ recorded' = <<>>
    /\ UNCHANGED <<config, verdict, poolVars, cacheVars, thr, asyncVars, resVars>>

\* TerminationHeuristics(...) with one of the configurations
HeurSpecInit ==
    /\ TableInit
    /\ thr = [t \in Threads |-> Idle]
    /\ httpx_available = TRUE
    /\ api_key = TRUE
    /\ NoAsync
    /\ PoolInit
    /\ config \in Configs
    /\ HeurInit
    /\ ResInit

HeurNext ==
    \/ \E d \in Diffs, success \in BOOLEAN : record_attempt(d, success)
    \/ TerminationHeuristics_should_terminate
    \/ TerminationHeuristics_reset

(***************************************************************************)
(* optimizations.py: retry_with_backoff. One call of the wrapper; every    *)
(* invocation of the wrapped function is a step, with what the handler     *)
(* does about its outcome. An exception is the pair of its class and the   *)
(* invocation that raised it, which is its identity. Delays are whole      *)
(* seconds.                                                                *)
(***************************************************************************)
ExcTypes == {"ValueError", "KeyError"}

Values == {"v"}

\* The policies tried: max_retries >= 0, base_delay >= 0, exponential_base >= 1
Policies ==
    { RetryPolicy(mr, bd, md, eb, re) :
        mr \in 0..MaxRetries, bd \in {1, 2}, md \in {1, 3}, eb \in {1, 2},
        re \in {{"Exception"}, {"ValueError"}} }

\* The exception of class type raised by the n-th invocation
Exc(type, n) == [type |-> type, raised_by |-> n]

\* What the wrapper ends with
RetryReturn(v) == [ret |-> <<v>>, exc |-> <<>>]
RetryRaise(e) == [ret |-> <<>>, exc |-> <<e>>]

\* Fault: the handler catches every exception
IsRetryable_any(type, p) == TRUE

\* except retryable_exceptions: the classes of ExcTypes derive from Exception
IsRetryable(type, p) ==
    \/ type \in p.retryable_exceptions
    \/ "Exception" \in p.retryable_exceptions

Attempts_short(p) == p.max_retries

\* range(max_retries + 1)
Attempts(p) == p.max_retries + 1

Delay_uncapped(p, attempt) == p.base_delay * (p.exponential_base ^ attempt)

\* min(base_delay * (exponential_base ** attempt), max_delay)
Delay(p, attempt) ==
    IF p.base_delay * (p.exponential_base ^ attempt) < p.max_delay
    THEN p.base_delay * (p.exponential_base ^ attempt)
    ELSE p.max_delay

\* raise last_exception, after the loop: None is not an exception
RaiseLast(last_exception) ==
    IF last_exception = <<>> THEN RetryRaise(Exc("TypeError", 0))
    ELSE RetryRaise(last_exception[1])

\* wrapper(*args, **kwargs) is called
wrapper_call ==
    /\ retry.pc \in {"idle", "done"}
    /\ retry' = IF Attempts(policy) > 0
                THEN [NoRun EXCEPT !.pc = "try"]
                ELSE [NoRun EXCEPT !.pc = "done", !.outcome = <<RaiseLast(<<>>)>>]
    /\ UNCHANGED <<policy, memoVars, poolVars, heurVars, cacheVars, thr, asyncVars>>

\* func(*args, **kwargs) returns v: the wrapper returns it
func_returns(v) ==
    /\ retry.pc = "try"
    /\ retry' = [retry EXCEPT !.pc = "done", !.calls = @ + 1,
                              !.outcome = <<RetryReturn(v)>>]
    /\ UNCHANGED <<policy, memoVars, poolVars, heurVars, cacheVars, thr, asyncVars>>

\* The handler of a retryable exception e raised in attempt number
\* r.attempt: sleep and go on, or re-raise
Handle(r, e) ==
    IF r.attempt < policy.max_retries
    THEN IF r.attempt + 1 < Attempts(policy)
         THEN [r EXCEPT !.last_exception = <<e>>,
                        !.slept = Append(@, Delay(policy, r.attempt)),
                        !.attempt = @ + 1]
         ELSE [r EXCEPT !.last_exception = <<e>>,
                        !.slept = Append(@, Delay(policy, r.attempt)),
                        !.pc = "done",
                        !.outcome = <<RaiseLast(<<e>>)>>]
    ELSE [r EXCEPT !.last_exception = <<e>>, !.pc = "done",
                   !.outcome = <<RetryRaise(e)>>]

\* func(*args, **kwargs) raises an exception of class type
func_raises(type) ==
    /\ retry.pc = "try"
    /\ LET e == Exc(type, retry.calls + 1)
           r == [retry EXCEPT !.calls = @ + 1, !.thrown = Append(@, e)]
       IN  retry' = IF IsRetryable(type, policy)
                    THEN Handle(r, e)
                    ELSE [r EXCEPT !.pc = "done", !.outcome = <<RetryRaise(e)>>]
    /\ UNCHANGED <<policy, memoVars, poolVars, heurVars, cacheVars, thr, asyncVars>>

\* A function decorated with one of the policies
RetrySpecInit ==
    /\ TableInit
    /\ thr = [t \in Threads |-> Idle]
    /\ httpx_available = TRUE
    /\ api_key = TRUE
    /\ NoAsync
    /\ PoolInit
    /\ config = DefaultConfig
    /\ HeurInit
    /\ policy \in Policies
    /\ RetryInit
    /\ memo = DefaultMemo
    /\ MemoInit

RetryNext ==
    \/ wrapper_call
    \/ \E v \in Values : func_returns(v)
    \/ \E type \in ExcTypes : func_raises(type)

(***************************************************************************)
(* optimizations.py: memoize_with_ttl. The threads of Callers call one     *)
(* wrapper. A call reads the key and the clock, then runs its body under   *)
(* `lock`: the lookup, the wrapped function, the eviction and the          *)
(* assignment are a step each, the lock being held from the first to the   *)
(* last. The dict is the sequence of its items in the dict's order, which  *)
(* is the order of insertion. A Python value is its type and its literal.  *)
(***************************************************************************)
PyInt(lit) == [type |-> "int", lit |-> lit]
PyStr(lit) == [type |-> "str", lit |-> lit]

\* The calls made: f(1), f('1'), f(a=1, b=1) and f(b=1, a=1)
Form(args, kwargs) == [args |-> args, kwargs |-> kwargs]

Forms ==
    { Form(<<PyInt("1")>>, <<>>),
      Form(<<PyStr("1")>>, <<>>),
      Form(<<>>, << <<"a", PyInt("1")>>, <<"b", PyInt("1")>> >>),
      Form(<<>>, << <<"b", PyInt("1")>>, <<"a", PyInt("1")>> >>) }

\* The configurations tried
MemoConfigs == { MemoConfig(2, ms) : ms \in 0..MaxSize }

\* repr() of a value, and of a (name, value) item of kwargs
Repr(v) == IF v.type = "str" THEN "'" \o v.lit \o "'" ELSE v.lit

ItemRepr(item) == "('" \o item[1] \o "', " \o Repr(item[2]) \o ")"

RECURSIVE Join(_)
Join(strs) ==
    IF strs = <<>> THEN ""
    ELSE IF Len(strs) = 1 THEN strs[1]
    ELSE strs[1] \o ", " \o Join(Tail(strs))

\* str() of a tuple whose items have the given repr()s
TupleStr(strs) ==
    "(" \o Join(strs) \o (IF Len(strs) = 1 THEN "," ELSE "") \o ")"

\* The order of the keyword names
KwNames == <<"a", "b">>

NameRank(name) == CHOOSE i \in DOMAIN KwNames : KwNames[i] = name

RECURSIVE Insert(_, _)
Insert(item, items) ==
    IF items = <<>> THEN <<item>>
    ELSE IF NameRank(item[1]) <= NameRank(items[1][1]) THEN <<item>> \o items
    ELSE <<items[1]>> \o Insert(item, Tail(items))

\* sorted(kwargs.items())
RECURSIVE Sorted(_)
Sorted(items) ==
    IF items = <<>> THEN <<>> ELSE Insert(items[1], Sorted(Tail(items)))

\* key = str((args, tuple(sorted(kwargs.items()))))
Key(form) ==
    TupleStr(<< TupleStr([i \in DOMAIN form.args |-> Repr(form.args[i])]),
                TupleStr([i \in DOMAIN Sorted(form.kwargs) |->
                              ItemRepr(Sorted(form.kwargs)[i])]) >>)

\* What func receives: the positional arguments and the keyword arguments
Bound(form) ==
    [args |-> form.args, kwargs |-> { form.kwargs[i] : i \in DOMAIN form.kwargs }]

\* What func(*args, **kwargs) returns: a value of these arguments
Computed(form) == [of |-> Bound(form)]

\* An item of the dict: key -> (timestamp, value)
Entry(key, timestamp, value) == [key |-> key, timestamp |-> timestamp, value |-> value]

\* The place of key in the dict, 0 if it is not there
Place(c, key) ==
    IF \E i \in DOMAIN c : c[i].key = key
    THEN CHOOSE i \in DOMAIN c : c[i].key = key
    ELSE 0

\* del cache[key]
Del(c, key) == SelectSeq(c, LAMBDA e : e.key # key)

\* cache[key] = (timestamp, value)
Put(c, key, timestamp, value) ==
    IF Place(c, key) = 0 THEN Append(c, Entry(key, timestamp, value))
    ELSE [c EXCEPT ![Place(c, key)] = Entry(key, timestamp, value)]

Young_inclusive(call_now, timestamp) == call_now - timestamp <= memo.ttl_seconds

\* now - timestamp < ttl_seconds
Young(call_now, timestamp) == call_now - timestamp < memo.ttl_seconds

Oldest_newest(c) ==
    c[CHOOSE i \in DOMAIN c : \A j \in DOMAIN c : c[j].timestamp <= c[i].timestamp].key

\* min(cache, key=lambda k: cache[k][0]): the first key, in the dict's
\* order, of the least timestamp
Oldest(c) ==
    c[CHOOSE i \in DOMAIN c :
          /\ \A j \in DOMAIN c : c[i].timestamp <= c[j].timestamp
          /\ \A j \in 1..(i - 1) : c[j].timestamp > c[i].timestamp].key

\* len(cache) >= maxsize
Full(c) == Len(c) >= memo.maxsize

MemoLockFree_off(l) == TRUE

\* `lock` can be acquired
MemoLockFree(l) == l = <<>>

\* The call returns or raises, and its locals are gone
Leave(outcome) == [NoMemoCall EXCEPT !.result = <<outcome>>]

\* wrapper(*args, **kwargs) is called: the key, and the clock read before
\* the lock is asked for
memo_enter(t, form) ==
    /\ memo_call[t].pc = "idle"
    /\ memo_call' = [memo_call EXCEPT ![t] =
            [NoMemoCall EXCEPT !.pc = "lock", !.form = <<form>>, !.now = now]]
    /\ UNCHANGED <<memo, cache, lock, retryVars, poolVars, heurVars, cacheVars, thr, asyncVars>>

\* with lock: if key in cache: fresh enough, return the value; else delete
memo_lookup(t) ==
    /\ memo_call[t].pc = "lock"
    /\ MemoLockFree(lock)
    /\ LET c == memo_call[t]
           i == Place(cache, Key(c.form[1]))
       IN  IF i = 0
           THEN /\ memo_call' = [memo_call EXCEPT ![t].pc = "compute"]
                /\ lock' = <<t>>
                /\ UNCHANGED cache
           ELSE IF Young(c.now, cache[i].timestamp)
           THEN /\ memo_call' = [memo_call EXCEPT ![t] = Leave(RetryReturn(cache[i].value))]
                /\ UNCHANGED <<cache, lock>>
           ELSE /\ memo_call' = [memo_call EXCEPT ![t].pc = "compute",
                                     ![t].timestamp = <<cache[i].timestamp>>]
                /\ lock' = <<t>>
                /\ cache' = Del(cache, Key(c.form[1]))
    /\ UNCHANGED <<memo, retryVars, poolVars, heurVars, cacheVars, thr, asyncVars>>

\* value = func(*args, **kwargs) returns
memo_func_returns(t) ==
    /\ memo_call[t].pc = "compute"
    /\ memo_call' = [memo_call EXCEPT ![t].pc = "store",
                         ![t].value = <<Computed(memo_call[t].form[1])>>]
    /\ UNCHANGED <<memo, cache, lock, retryVars, poolVars, heurVars, cacheVars, thr, asyncVars>>

\* func(*args, **kwargs) raises: the exception leaves the wrapper, and the
\* with statement releases the lock
memo_func_raises(t) ==
    /\ memo_call[t].pc = "compute"
    /\ memo_call' = [memo_call EXCEPT ![t] = Leave(RetryRaise(Exc("Exception", 1)))]
    /\ lock' = <<>>
    /\ UNCHANGED <<memo, cache, retryVars, poolVars, heurVars, cacheVars, thr, asyncVars>>

\* if len(cache) >= maxsize: delete the oldest key; min() of an empty dict
\* raises ValueError
memo_evict(t) ==
    /\ memo_call[t].pc = "store"
    /\ IF ~Full(cache)
       THEN /\ memo_call' = [memo_call EXCEPT ![t].pc = "insert"]
            /\ UNCHANGED <<cache, lock>>
       ELSE IF cache = <<>>
       THEN /\ memo_call' = [memo_call EXCEPT ![t] = Leave(RetryRaise(Exc("ValueError", 0)))]
            /\ lock' = <<>>
            /\ UNCHANGED cache
       ELSE /\ memo_call' = [memo_call EXCEPT ![t].pc = "insert",
                                 ![t].oldest_key = <<Oldest(cache)>>]
            /\ cache' = Del(cache, Oldest(cache))
            /\ UNCHANGED lock
    /\ UNCHANGED <<memo, retryVars, poolVars, heurVars, cacheVars, thr, asyncVars>>

\* cache[key] = (now, value); return value
memo_insert(t) ==
    /\ memo_call[t].pc = "insert"
    /\ cache' = Put(cache, Key(memo_call[t].form[1]), memo_call[t].now, memo_call[t].value[1])
    /\ memo_call' = [memo_call EXCEPT ![t] = Leave(RetryReturn(memo_call[t].value[1]))]
    /\ lock' = <<>>
    /\ UNCHANGED <<memo, retryVars, poolVars, heurVars, cacheVars, thr, asyncVars>>

\* func(*args, **kwargs), running under `lock`, calls the wrapper: the inner
\* call computes its key, reads the clock and comes to `with lock:`, its
\* thread holding the lock in the outer call. threading.Lock is not
\* reentrant: the inner call is a call like any other and waits in
\* memo_lookup for the lock to be free.
memo_reenter(t, form) ==
    /\ memo_call[t].pc = "compute"
    /\ memo_call' = [memo_call EXCEPT ![t] =
            [NoMemoCall EXCEPT !.pc = "lock", !.form = <<form>>, !.now = now,
                               !.outer = <<memo_call[t]>>]]
    /\ UNCHANGED <<memo, cache, lock, retryVars, poolVars, heurVars, cacheVars, thr, asyncVars>>

\* wrapper.clear_cache()
clear_cache(t) ==
    /\ memo_call[t].pc = "idle"
    /\ MemoLockFree(lock)
    /\ cache # <<>>
    /\ cache' = <<>>
    /\ UNCHANGED <<memo, lock, memo_call, retryVars, poolVars, heurVars, cacheVars, thr, asyncVars>>

\* time.time() moves on
MemoTick ==
    /\ now < MaxMemoTime
    /\ now' = now + 1
    /\ UNCHANGED <<store, conn, last, memoVars, retryVars, poolVars, heurVars, thr, asyncVars>>

\* A function decorated with one of the configurations
MemoSpecInit ==
    /\ TableInit
    /\ thr = [t \in Threads |-> Idle]
    /\ httpx_available = TRUE
    /\ api_key = TRUE
    /\ NoAsync
    /\ PoolInit
    /\ config = DefaultConfig
    /\ HeurInit
    /\ policy = DefaultPolicy
    /\ RetryInit
    /\ memo \in MemoConfigs
    /\ MemoInit

MemoNext ==
    \/ \E t \in Callers, form \in Forms : memo_enter(t, form)
    \/ \E t \in Callers : memo_lookup(t)
    \/ \E t \in Callers : memo_func_returns(t)
    \/ \E t \in Callers : memo_func_raises(t)
    \/ \E t \in Callers : memo_evict(t)
    \/ \E t \in Callers : memo_insert(t)
    \/ \E t \in Callers : clear_cache(t)
    \/ MemoTick

\* The calls of MemoNext, and wrapped functions that call their own wrapper
NestedNext ==
    \/ MemoNext
    \/ \E t \in Callers, form \in Forms : memo_reenter(t, form)

Init == CacheInit

Next == CacheNext

Spec == Init /\ [][Next]_vars

\* The response cache shared by the threads of Threads.
SpecThreads == CacheInit /\ [][ThreadNext]_vars

\* call_deepseek_cached on an open cache.
SpecInvoke == InvokeInit /\ [][InvokeNext]_vars

\* call_parallel, with or without httpx and an API key.
SpecParallel == InvokeInit /\ [][ParallelNext]_vars

\* The response cache used from one thread.
SpecCache == CacheInit /\ [][CacheNext]_vars

\* TerminationHeuristics under every sequence of record_attempt,
\* should_terminate and reset.
SpecHeur == HeurSpecInit /\ [][HeurNext]_vars

\* The worker pool shared by the callers of Callers.
SpecPool == CacheInit /\ [][PoolNext]_vars

\* The response cache used from one thread, with stats().
SpecHits == CacheInit /\ [][HitsNext]_vars

\* call_deepseek_cached on a cache whose statements can fail.
SpecFaulty == InvokeInit /\ [][FaultyNext]_vars

\* Calls, from the threads of Callers, of a function decorated with
\* memoize_with_ttl.
SpecMemo == MemoSpecInit /\ [][MemoNext]_vars

\* Calls of a function decorated with retry_with_backoff.
SpecRetry == RetrySpecInit /\ [][RetryNext]_vars

\* The worker pool shared by the callers of Callers, statement by statement.
SpecPoolSteps == CacheInit /\ [][PoolStepsNext]_vars

\* Calls, from the threads of Callers, of a function decorated with
\* memoize_with_ttl that may call itself through the wrapper.
SpecNested == MemoSpecInit /\ [][NestedNext]_vars

\* The worker pool with the statements of cleanup.
SpecCleanup == CacheInit /\ [][CleanupNext]_vars

\* The response cache used with models and prompts that hold a colon.
SpecKey == CacheInit /\ [][KeyNext]_vars

(***************************************************************************)
(* Response cache: properties                                              *)
(***************************************************************************)
Hit(r, content) == <<AsyncLLMResponse(content, r.model, r.temperature, TRUE)>>

Min(a, b) == IF a < b THEN a ELSE b

Max(S) == CHOOSE x \in S : \A y \in S : y <= x

\* C1. Round trip: in the state an open cache's set leaves, a get with the
\* same (prompt, model, temperature) returns the content just set, cached = TRUE.
C1_SetThenGet ==
    (conn /\ last.op = "set") => GetResult(store, now, last.req) = Hit(last.req, last.content)

\* C1's case: a set into a full table, some time after the cache was created.
C1_Witness ==
    /\ conn /\ last.op = "set" /\ last.count > MaxEntries /\ now > 0
    /\ GetResult(store, now, last.req) = Hit(last.req, last.content)

\* C2. Expiry on lookup: a get that fetched a row created more than
\* MaxAgeHours ago returned None, and the row is gone: a get now is a miss too.
C2_ExpiredGetDeletes ==
    (last.op = "get" /\ last.row # <<>> /\ now - last.row[1].created_at > MaxAgeHours)
        => /\ last.out = <<>>
           /\ SelectRow(store, KeyOf(last.req)) = <<>>
           /\ GetResult(store, now, last.req) = <<>>

\* C2's case: a get has fetched an expired row, while another row stays.
C2_Witness ==
    /\ last.op = "get" /\ last.row # <<>> /\ now - last.row[1].created_at > MaxAgeHours
    /\ last.out = <<>> /\ Len(store) > 0

\* C3. Size eviction: every set on an open cache leaves at most MaxEntries
\* rows; a set of a key that is not in the table, when no row has expired,
\* leaves min(count + 1, MaxEntries) rows, and they are the most recently
\* created ones: the new row and the latest of the rows there were.
C3_SizeEviction ==
    [][ (conn /\ last'.op = "set") =>
          LET key == KeyOf(last'.req)
              all == Append(store, Row(key, last'.content, now))
              n == Min(Len(all), MaxEntries)
          IN  /\ Len(store') <= MaxEntries
              /\ ( /\ SelectRow(store, key) = <<>>
                   /\ \A i \in DOMAIN store : ~(now' - store[i].created_at > MaxAgeHours) )
                 => store' = SubSeq(all, Len(all) - n + 1, Len(all)) ]_vars

\* C3's case: a set of a new key found more than MaxEntries rows and left MaxEntries.
C3_Witness ==
    /\ conn /\ last.op = "set" /\ last.row = <<>> /\ last.count = MaxEntries + 1
    /\ Len(store) = MaxEntries

UniqueKeys(tbl) ==
    \A i, j \in DOMAIN tbl : tbl[i].prompt_hash = tbl[j].prompt_hash => i = j

\* C4. Upsert: the table never holds two rows with one key; after a set on a
\* key that had a row, a get returns the new content and the row is the only one.
C4_Upsert ==
    /\ UniqueKeys(store)
    /\ (conn /\ last.op = "set" /\ last.row # <<>>)
          => /\ GetResult(store, now, last.req) = Hit(last.req, last.content)
             /\ Len(SelectSeq(store, LAMBDA r : r.prompt_hash = KeyOf(last.req))) = 1

\* C4's case: a set has replaced a row that held other content.
C4_Witness ==
    /\ conn /\ last.op = "set" /\ last.row # <<>>
    /\ last.row[1].response # last.content
    /\ Len(store) = MaxEntries

(***************************************************************************)
(* Response cache shared by threads: properties                            *)
(***************************************************************************)
\* C5. Atomicity: the statements of concurrent get and set calls take effect
\* as if each call ran alone: the UPDATE of a get increments the hit_count of
\* the entry the get read, the eviction of a set never leaves fewer than
\* MaxEntries rows, and with no call in progress the table holds at most
\* MaxEntries rows.
C5_Atomic ==
    [][ \A t \in Threads :
          /\ (thr[t].pc = "g_update" /\ thr'[t].pc = "idle")
                => Fetch(store, KeyOf(thr[t].req)) = thr[t].row
          /\ (thr[t].pc = "c_delete_excess" /\ thr'[t].pc = "idle")
                => Len(store') >= MaxEntries
          /\ (\A u \in Threads : thr'[u].pc = "idle") => Len(store') <= MaxEntries ]_vars

(***************************************************************************)
(* call_deepseek_cached: properties                                        *)
(***************************************************************************)
\* The row of r's key, if the table holds one that is no older than MaxAgeHours
Unexpired(tbl, t, r) ==
    LET row == Fetch(tbl, KeyOf(r))
    IN  IF row = <<>> THEN <<>>
        ELSE IF t - row[1].created_at > MaxAgeHours THEN <<>> ELSE row

\* A call that has ended after one call_deepseek_async: a response is not
\* marked cached and is what a get of the key now returns; an exception left
\* the cache unwritten.
MissOutcome(c, tbl, t) ==
    /\ c.invokes = 1
    /\ c.pc = "done" =>
          IF c.out[1].exc = ""
             THEN /\ ~c.out[1].resp[1].cached
                  /\ c.wrote
                  /\ GetResult(tbl, t, c.req) = Hit(c.req, c.out[1].resp[1].content)
             ELSE ~c.wrote

\* C6. Hit path: a call with use_cache, made while the table holds an
\* unexpired row for the key, ends at once with the row's content, cached =
\* TRUE, without calling call_deepseek_async, posting to the backend or
\* calling cache.set: the row keeps its response and created_at.
C6_HitPath ==
    [][ \A r \in InvokeRequests :
          (Unexpired(store, now, r) # <<>> /\ call_deepseek_cached(r, TRUE))
            => /\ call'.pc = "done"
               /\ call'.out = <<Returned(AsyncLLMResponse(
                                  Unexpired(store, now, r)[1].response,
                                  r.model, r.temperature, TRUE))>>
               /\ call'.invokes = 0 /\ call'.posts = 0 /\ ~call'.wrote
               /\ Fetch(store', KeyOf(r)) = Fetch(store, KeyOf(r))
               /\ Len(store') = Len(store) ]_vars

\* C6's case: a call was served from the cache while no API key was set.
C6_Witness ==
    /\ call.pc = "done" /\ call.use_cache /\ call.invokes = 0 /\ call.posts = 0
    /\ call.out[1].exc = "" /\ call.out[1].resp[1].cached
    /\ ~api_key

\* C7. Miss path: a call with use_cache, made while the table holds no
\* unexpired row for the key, calls call_deepseek_async exactly once; when
\* that returns a response, the call returns it with cached = FALSE and the
\* cache holds its content under the key. The next call with the same
\* arguments, made before the row expires, returns that content with cached =
\* TRUE and does not call call_deepseek_async.
C7_MissPath ==
    [][ /\ \A r \in InvokeRequests :
             (Unexpired(store, now, r) = <<>> /\ call_deepseek_cached(r, TRUE))
               => MissOutcome(call', store', now)
        /\ (call.pc = "awaiting" /\ call.use_cache /\ call'.pc = "done")
               => MissOutcome(call', store', now) /\ call'.posts = 1
        /\ ( /\ call.pc = "done" /\ call.wrote
             /\ Unexpired(store, now, call.req) # <<>>
             /\ call_deepseek_cached(call.req, TRUE) )
               => /\ call'.out = <<Returned(AsyncLLMResponse(
                                     call.out[1].resp[1].content,
                                     call.req.model, call.req.temperature, TRUE))>>
                  /\ call'.invokes = 0 /\ call'.posts = 0 ]_vars

\* C7's case: a call was served the backend's reply that an earlier call had
\* written into a full table.
C7_Witness ==
    /\ call.pc = "done" /\ call.use_cache /\ call.invokes = 0
    /\ call.out[1].exc = "" /\ call.out[1].resp[1].cached
    /\ call.out[1].resp[1].content # MockContent
    /\ Len(store) = MaxEntries /\ now > 0

(***************************************************************************)
(* call_parallel and call_deepseek_async: properties                       *)
(***************************************************************************)
\* What call_deepseek_async ends with for request r when it is the only call
Alone(r, fate) ==
    LET enter == call_deepseek_async_enter(r, httpx_available, api_key)
    IN  IF enter # <<>> THEN enter[1]
        ELSE call_deepseek_async_resume(r, fate, ParReply)

\* C8. Failure isolation: call_parallel never raises; it returns one result
\* per request, each a response or a captured exception, and each what its
\* request ends with alone: as many results are exceptions as requests fail.
C8_FailureIsolation ==
    /\ par.pc # "raised"
    /\ par.pc = "done" =>
          /\ Len(par.results) = Len(par.reqs)
          /\ \A i \in DOMAIN par.reqs :
                /\ par.results[i] = Alone(par.reqs[i], par.fate[i])
                /\ (par.results[i].exc = "") # (par.results[i].resp = <<>>)
          /\ Cardinality({ i \in DOMAIN par.reqs : par.results[i].exc # "" })
               = Cardinality({ i \in DOMAIN par.reqs :
                                 Alone(par.reqs[i], par.fate[i]).exc # "" })

\* C8's case: three requests, the second alone failed at the backend.
C8_Witness ==
    /\ par.pc = "done" /\ Len(par.reqs) = 3
    /\ par.fate = <<"ok", "HTTPStatusError", "ok">>
    /\ par.results[2].exc = "HTTPStatusError"
    /\ par.results[1].exc = "" /\ par.results[3].exc = ""

\* C9. Ordering: result i is what task i ended with, and a response among
\* them carries the temperature and answers the prompt of request i,
\* whatever the order in which the tasks ended.
C9_InputOrder ==
    par.pc = "done" =>
      \A i \in DOMAIN par.reqs :
        /\ par.results[i] = par.outcome[i][1]
        /\ par.results[i].exc = "" =>
              /\ par.results[i].resp[1].temperature = par.reqs[i].temperature
              /\ par.results[i].resp[1].model = par.reqs[i].model
              /\ par.results[i].resp[1].content
                    \in {MockContent, BackendContent(par.reqs[i].prompt, ParReply)}

\* C9's case: three different requests answered in the reverse order.
C9_Witness ==
    /\ par.pc = "done" /\ par.order = <<3, 2, 1>>
    /\ par.reqs[1] # par.reqs[2] /\ par.reqs[2] # par.reqs[3] /\ par.reqs[1] # par.reqs[3]
    /\ \A i \in 1..3 : par.results[i].exc = ""

\* C10. Placeholder fallback: with no API key, call_deepseek_async ends
\* without posting to the backend, and with the placeholder response (the
\* fixed content, the model and temperature of the request, cached = FALSE).
C10_Placeholder ==
    ~api_key =>
      \A i \in DOMAIN par.task :
        /\ par.task[i] # "awaiting"
        /\ par.task[i] = "done" =>
              par.outcome[i] = <<Returned(AsyncLLMResponse(
                                  MockContent, par.reqs[i].model,
                                  par.reqs[i].temperature, FALSE))>>

(***************************************************************************)
(* Worker pool: properties                                                 *)
(***************************************************************************)
\* acquire returns None to t in this step
Absent(t) == acquire_take(t) /\ workers' = workers

\* acquire returns to t, in this step, the worker at place i
Gets(t, i) ==
    /\ acquire_take(t)
    /\ i \in DOMAIN workers'
    /\ t \in workers'[i].holders
    /\ i \in DOMAIN workers => t \notin workers[i].holders

\* Every worker of the pool is in use and the pool is full
Exhausted == Len(workers) = MaxWorkers /\ \A i \in DOMAIN workers : workers[i].in_use

\* C11. acquire's loop stops only at a worker that is not in use and whose
\* process has not exited when polled; the worker acquire returns is the one
\* the loop stopped at, not in use until then, or a worker spawned because the
\* loop found none and the pool was below max_workers; it is marked in use
\* when acquire returns.
C11_AcquireSelection ==
    [][\A t \in Callers :
         /\ acquire_scan(t) /\ caller'[t].pick # 0 =>
               /\ caller'[t].pick \in DOMAIN workers
               /\ ~workers[caller'[t].pick].in_use
               /\ ~workers[caller'[t].pick].exited
         /\ \A i \in 1..MaxWorkers + 1 : Gets(t, i) =>
               /\ workers'[i].in_use
               /\ \/ i = caller[t].pick /\ i \in DOMAIN workers /\ ~workers[i].in_use
                  \/ /\ caller[t].pick = 0
                     /\ i = Len(workers) + 1
                     /\ Len(workers) < MaxWorkers]_vars

\* The loop has passed a worker whose process has exited and another that is
\* in use, and stopped at a third.
C11_Witness ==
    \E t \in Callers :
        /\ caller[t].pc = "acquire"
        /\ caller[t].pick \in DOMAIN workers
        /\ \E i \in 1..caller[t].pick - 1 : workers[i].exited \/ workers[i].in_use

\* C12 as stated. When the pool is full and every worker is in use, acquire
\* returns None; when a worker of the pool has been released (is not in
\* use), the next acquire returns a worker, one whose process had not exited
\* when polled.
C12_Backpressure ==
    [][\A t \in Callers :
         /\ acquire_take(t) /\ Exhausted => Absent(t)
         /\ acquire_take(t) /\ (\E i \in DOMAIN workers : ~workers[i].in_use) => ~Absent(t)
         /\ acquire_scan(t) /\ caller'[t].pick # 0 => ~workers[caller'[t].pick].exited]_vars

\* C12 amended. When the pool is full and every worker is in use, acquire
\* returns None; when a worker of the pool is not in use and its process has
\* not exited, or the pool is below max_workers, the next acquire returns a
\* worker (polled alive, or new); when the pool is full and every worker
\* that is not in use has a process that had exited at the poll, acquire returns None.
C12_BackpressureLive ==
    [][\A t \in Callers :
         /\ acquire_take(t) /\ Exhausted => Absent(t)
         /\ acquire_scan(t) /\ (\E i \in DOMAIN workers : ~workers[i].in_use /\ ~workers[i].exited) =>
               /\ caller'[t].pick \in DOMAIN workers
               /\ ~workers[caller'[t].pick].exited
         /\ acquire_take(t) /\ (caller[t].pick # 0 \/ Len(workers) < MaxWorkers) => ~Absent(t)
         /\ acquire_take(t) /\ caller[t].pick = 0 /\ Len(workers) = MaxWorkers => Absent(t)
         /\ acquire_scan(t) /\ (\A i \in DOMAIN workers : workers[i].in_use \/ workers[i].exited) =>
               caller'[t].pick = 0]_vars

\* The pool is full, one worker has been released but its process has
\* exited, and acquire's loop has found nothing.
C12_Witness ==
    \E t \in Callers :
        /\ caller[t].pc = "acquire"
        /\ caller[t].pick = 0
        /\ Len(workers) = MaxWorkers
        /\ \E i \in DOMAIN workers : ~workers[i].in_use /\ workers[i].exited
        /\ \E i \in DOMAIN workers : workers[i].in_use

\* C13. The pool never holds more than max_workers workers, and never more
\* than max_workers of them are marked in use, whatever the callers do.
C13_PoolBound ==
    /\ Len(workers) <= MaxWorkers
    /\ Cardinality({ i \in DOMAIN workers : workers[i].in_use }) <= MaxWorkers

\* The pool is full, every worker is in use, and one more acquire has run
\* its loop and is about to test the limit.
C13_Witness ==
    /\ Exhausted
    /\ \E t \in Callers : caller[t].pc = "acquire" /\ caller[t].pick = 0

\* C14. No worker is held by two callers at once, and at most one caller is
\* inside a pool operation: the caller that holds the lock.
C14_Exclusive ==
    /\ \A i \in DOMAIN workers : Cardinality(workers[i].holders) <= 1
    /\ \A t \in Callers : caller[t].pc = "acquire" <=> pool_lock = <<t>>
    /\ \A t, u \in Callers : caller[t].pc = "acquire" /\ caller[u].pc = "acquire" => t = u

\* Each caller holds a worker, and one of them is inside acquire for another.
C14_Witness ==
    /\ \E i, j \in DOMAIN workers : workers[i].holders = {"a"} /\ workers[j].holders = {"b"}
    /\ \E t \in Callers : caller[t].pc = "acquire"

\* The places of the workers cleanup reaps, with `now` as cleanup read it
ReapedPlaces(t) ==
    { i \in DOMAIN workers :
        ~workers[i].in_use /\ caller[t].now - workers[i].last_used > MaxIdleTime }

\* C15. cleanup drops from the pool exactly the workers that are not in use
\* and whose last_used lies more than max_idle_time before the time cleanup
\* read, and stops the processes of exactly these; the other workers stay,
\* in their order, with their fields unchanged.
C15_CleanupFrame ==
    [][\A t \in Callers : cleanup_body(t) =>
         /\ Len(workers') = Len(workers) - Cardinality(ReapedPlaces(t))
         /\ \A i \in DOMAIN workers \ ReapedPlaces(t) :
               workers'[i - Cardinality({ j \in ReapedPlaces(t) : j < i })] = workers[i]
         /\ Len(signalled') = Cardinality(ReapedPlaces(t))
         /\ \A i \in ReapedPlaces(t) :
               signalled'[Cardinality({ j \in ReapedPlaces(t) : j <= i })].worker = workers[i]]_vars

\* cleanup has just reaped a worker and kept one that is in use although it
\* was used as long ago.
C15_Witness ==
    /\ Len(signalled) >= 1
    /\ \E i \in DOMAIN workers :
          workers[i].in_use /\ workers[i].last_used <= signalled[1].worker.last_used

\* C16. shutdown stops the process of every worker of the pool, in use or
\* not (terminate, or kill when terminate or the wait raised), and leaves the
\* pool without workers.
C16_ShutdownAll ==
    [][\A t \in Callers : shutdown(t) =>
         /\ workers' = <<>>
         /\ Len(signalled') = Len(workers)
         /\ \A i \in DOMAIN workers :
               /\ signalled'[i].worker = workers[i]
               /\ signalled'[i].stop \in {"terminate", "kill"}]_vars

\* shutdown has just stopped a worker in use and an idle one, one of them by kill.
C16_Witness ==
    /\ workers = <<>>
    /\ \E i, j \in DOMAIN signalled :
          /\ signalled[i].worker.in_use
          /\ ~signalled[j].worker.in_use
          /\ signalled[i].stop = "kill"

(***************************************************************************)
(* Termination heuristics: properties                                      *)
(***************************************************************************)
\* C17. record_attempt(diff, success) adds one to _total_attempts; on a
\* success it adds one to _successful_attempts and sets _consecutive_failures
\* to 0; on a failure it adds one to _consecutive_failures and leaves
\* _successful_attempts; either way the hash of diff becomes the last
\* element of _patch_hashes.
C17_RecordAttempt ==
    [][\A d \in Diffs, success \in BOOLEAN : record_attempt(d, success) =>
         /\ heur'.total_attempts = heur.total_attempts + 1
         /\ success =>
               /\ heur'.successful_attempts = heur.successful_attempts + 1
               /\ heur'.consecutive_failures = 0
         /\ ~success =>
               /\ heur'.consecutive_failures = heur.consecutive_failures + 1
               /\ heur'.successful_attempts = heur.successful_attempts
         /\ heur'.patch_hashes # <<>>
         /\ heur'.patch_hashes[Len(heur'.patch_hashes)] = patch_hash(d)
         /\ \A i \in 1..Len(heur'.patch_hashes) - 1 :
               heur'.patch_hashes[i] =
                   heur.patch_hashes[Len(heur.patch_hashes) - (Len(heur'.patch_hashes) - 1) + i]]_vars

\* A failure, a success, then two failures have been recorded.
C17_Witness ==
    /\ heur.total_attempts = 4
    /\ heur.successful_attempts = 1
    /\ heur.consecutive_failures = 2
    /\ ~recorded[1].success

\* The hashes of the last n attempts recorded, in recording order
LastHashes(n) ==
    [i \in 1..n |-> patch_hash(recorded[Len(recorded) - n + i].diff)]

\* C18. _patch_hashes never holds more than its maxlen and holds the hashes
\* of the most recent min(n, maxlen) of the n attempts recorded since
\* construction or the last reset, in recording order.
C18_RingBuffer ==
    /\ Len(heur.patch_hashes) <= MaxLen
    /\ heur.patch_hashes = LastHashes(Min(Len(recorded), MaxLen))

\* More attempts than maxlen have been recorded and the oldest hash, which
\* differs from those kept, is gone.
C18_Witness ==
    /\ Len(recorded) > MaxLen
    /\ \A i \in DOMAIN heur.patch_hashes : heur.patch_hashes[i] # patch_hash(recorded[1].diff)

\* Rule 1: the consecutive failures have reached max_consecutive_failures
Rule1 == heur.consecutive_failures >= config.max_consecutive_failures

\* Rule 2: the buffer holds at least max_similar_patches hashes and the most
\* recent max_similar_patches are all identical
Rule2 ==
    /\ Len(heur.patch_hashes) >= config.max_similar_patches
    /\ \A i, j \in Len(heur.patch_hashes) - config.max_similar_patches + 1 .. Len(heur.patch_hashes) :
          heur.patch_hashes[i] = heur.patch_hashes[j]

\* Rule 3: min_steps attempts have been made and the share of successful
\* ones (which there is only once an attempt has been made) is below
\* min_success_rate
Rule3 ==
    /\ heur.total_attempts >= config.min_steps
    /\ heur.total_attempts > 0
    /\ heur.successful_attempts * 100 < config.min_success_rate * heur.total_attempts

ConsecutiveReason(n) == "Too many consecutive failures (" \o ToString(n) \o ")"

\* What the first of the three rules that holds reports
FirstRule ==
    IF Rule1 THEN <<TRUE, ConsecutiveReason(heur.consecutive_failures)>>
    ELSE IF Rule2 THEN <<TRUE, "Repeated identical patches">>
    ELSE IF Rule3 THEN <<TRUE, "Success rate too low ("
                 \o RateFmt(heur.successful_attempts, heur.total_attempts) \o ")">>
    ELSE <<FALSE, "">>

\* C19. should_terminate returns what the first rule that holds reports, in
\* the order rule 1, rule 2, rule 3, and (False, "") when none holds.
C19_Decision ==
    [][TerminationHeuristics_should_terminate => verdict' = <<Returned(FirstRule)>>]_vars

\* The length of the run of failed attempts that ends the attempts recorded
TrailingFailures ==
    Len(recorded) - Max({0} \cup { i \in DOMAIN recorded : recorded[i].success })

LastSucceeded == recorded # <<>> /\ recorded[Len(recorded)].success

\* C20 as stated. After exactly max_consecutive_failures failed attempts in
\* a row should_terminate returns True with the reason of the consecutive
\* failures, and after a success has reset the run it returns False.
C20_FailureStop ==
    [][TerminationHeuristics_should_terminate =>
         /\ TrailingFailures = config.max_consecutive_failures =>
               verdict' = <<Returned(<<TRUE, ConsecutiveReason(config.max_consecutive_failures)>>)>>
         /\ LastSucceeded => verdict' = <<Returned(<<FALSE, "">>)>>]_vars

\* C20 amended (max_consecutive_failures >= 1). Once the run of failed
\* attempts has reached max_consecutive_failures, should_terminate returns
\* True with the reason of the consecutive failures; right after a success
\* it does not give that reason, and returns False unless rule 2 or rule 3 holds.
C20_FailureStopRules ==
    [][TerminationHeuristics_should_terminate =>
         /\ TrailingFailures >= config.max_consecutive_failures =>
               verdict' = <<Returned(<<TRUE, ConsecutiveReason(TrailingFailures)>>)>>
         /\ LastSucceeded =>
               /\ verdict' # <<Returned(<<TRUE, ConsecutiveReason(heur.consecutive_failures)>>)>>
               /\ verdict' = <<Returned(<<FALSE, "">>)>> <=> ~Rule2 /\ ~Rule3
               /\ verdict'[1].exc = ""]_vars

\* Two failures and a success, all with the same diff: the run of failures
\* is reset and should_terminate has returned True for the repeated patches.
C20_Witness ==
    /\ LastSucceeded
    /\ \E i \in DOMAIN recorded : ~recorded[i].success
    /\ verdict = <<Returned(<<TRUE, "Repeated identical patches">>)>>

(***************************************************************************)
(* C21..C23: the repeated patches, reset() and the outer loop              *)
(***************************************************************************)
\* The contents of the last n attempts recorded
LastDiffs(n) == { recorded[i].diff : i \in Len(recorded) - n + 1 .. Len(recorded) }

\* At least max_similar_patches attempts are recorded and the contents of
\* the last max_similar_patches are one and the same
LastIdentical ==
    /\ Len(recorded) >= config.max_similar_patches
    /\ Cardinality(LastDiffs(config.max_similar_patches)) = 1

\* At least max_similar_patches attempts are recorded and one of the last
\* max_similar_patches has another content than the rest
LastDiffer ==
    /\ Len(recorded) >= config.max_similar_patches
    /\ Cardinality(LastDiffs(config.max_similar_patches)) > 1

Successes == Cardinality({ i \in DOMAIN recorded : recorded[i].success })

\* The share of successes among the attempts recorded is below
\* min_success_rate, min_steps attempts having been made
RateTooLow ==
    /\ Len(recorded) >= config.min_steps
    /\ Successes * 100 < config.min_success_rate * Len(recorded)

\* C21 as stated. should_terminate returns True with the reason of the
\* repeated patches once the last max_similar_patches recorded contents are
\* identical, and returns False when one of them differs.
C21_RepeatedStop ==
    [][TerminationHeuristics_should_terminate =>
         /\ LastIdentical => verdict' = <<Returned(<<TRUE, "Repeated identical patches">>)>>
         /\ LastDiffer => verdict' = <<Returned(<<FALSE, "">>)>>]_vars

\* C21 amended (1 <= max_similar_patches <= the capacity of the buffer).
\* Once the last max_similar_patches recorded contents are identical,
\* should_terminate returns True, with the reason of the repeated patches
\* unless the run of failures has reached max_consecutive_failures, which
\* is then the reason given; when one of them differs it does not give the
\* reason of the repeated patches, and returns False unless the run of
\* failures or the success rate stops the loop.
C21_RepeatedStopRules ==
    [][TerminationHeuristics_should_terminate =>
         /\ LastIdentical =>
               verdict' = <<Returned(<<TRUE,
                   IF TrailingFailures >= config.max_consecutive_failures
                   THEN ConsecutiveReason(TrailingFailures)
                   ELSE "Repeated identical patches">>)>>
         /\ LastDiffer =>
               /\ verdict' # <<Returned(<<TRUE, "Repeated identical patches">>)>>
               /\ verdict'[1].exc = ""
               /\ verdict' = <<Returned(<<FALSE, "">>)>> <=>
                     /\ TrailingFailures < config.max_consecutive_failures
                     /\ ~RateTooLow]_vars

\* Three attempts of which the first has another content than the last two:
\* should_terminate has returned True for the repeated patches.
C21_Witness ==
    /\ Len(recorded) > config.max_similar_patches
    /\ LastIdentical
    /\ Cardinality(LastDiffs(Len(recorded))) > 1
    /\ verdict = <<Returned(<<TRUE, "Repeated identical patches">>)>>

\* C22. reset() leaves the buffer empty and the three counters at 0, which
\* is the state __post_init__ and the field defaults construct, and leaves
\* the four fields of the configuration as they were: what the instance
\* does from there on depends on these fields only, so it does what a fresh
\* instance with the same configuration does.
C22_ResetFresh ==
    [][TerminationHeuristics_reset =>
         /\ heur'.patch_hashes = <<>>
         /\ heur'.consecutive_failures = 0
         /\ heur'.total_attempts = 0
         /\ heur'.successful_attempts = 0
         /\ heur' = Fresh
         /\ config' = config
         /\ should_terminate(config', heur') = should_terminate(config, Fresh)
         /\ \A d \in Diffs, success \in BOOLEAN :
               should_terminate(config', Count([heur' EXCEPT !.patch_hashes =
                       DequeAppend(@, patch_hash(d))], success))
               = should_terminate(config, Count([Fresh EXCEPT !.patch_hashes =
                       DequeAppend(@, patch_hash(d))], success))]_vars

\* reset() has run after should_terminate() had returned True, which it
\* does not on a fresh instance: nothing is recorded and the state is fresh.
C22_Witness ==
    /\ recorded = <<>>
    /\ heur = Fresh
    /\ \E reason \in {"Repeated identical patches", ConsecutiveReason(2), ConsecutiveReason(3)} :
          verdict = <<Returned(<<TRUE, reason>>)>>

\* The state of a fresh instance after the attempts of seq, in their order
RECURSIVE HeurAfter(_)
HeurAfter(seq) ==
    IF seq = <<>> THEN Fresh
    ELSE Recorded(HeurAfter(SubSeq(seq, 1, Len(seq) - 1)),
                  seq[Len(seq)].diff, seq[Len(seq)].success)

\* An outer loop that records each attempt, asks should_terminate() after
\* it and stops as soon as the answer is not False, is still going after
\* the attempts of seq
StillRunning(seq) ==
    \A k \in 1..Len(seq) :
        should_terminate(config, HeurAfter(SubSeq(seq, 1, k))) = Returned(<<FALSE, "">>)

\* The attempts recorded are those of one run of such a loop: it had not
\* stopped before the last of them
InLoop == recorded # <<>> /\ StillRunning(SubSeq(recorded, 1, Len(recorded) - 1))

\* The bound of C23 taken as generously as the three thresholds allow
StepBound(c) == c.min_steps + c.max_consecutive_failures + c.max_similar_patches

\* C23 as stated. The loop stops within a number of attempts that depends
\* on the configuration alone, whatever the contents and the success flags:
\* no run of the loop is longer than the thresholds of the configuration
\* taken together.
C23_StepBound == InLoop => Len(recorded) <= StepBound(config)

\* C23 amended. When every attempt fails, the loop stops within
\* max(1, max_consecutive_failures) attempts, whatever the contents.
C23_FailingRunBound ==
    InLoop /\ Successes = 0 =>
        Len(recorded) <= Max({1, config.max_consecutive_failures})

\* A run of the loop in which every attempt failed and the contents
\* alternated has reached max_consecutive_failures attempts, and
\* should_terminate has stopped it for the consecutive failures.
C23_Witness ==
    /\ InLoop
    /\ Successes = 0
    /\ Len(recorded) = config.max_consecutive_failures
    /\ verdict = <<Returned(<<TRUE, ConsecutiveReason(Len(recorded))>>)>>

(***************************************************************************)
(* C24, C25: retry_with_backoff                                            *)
(***************************************************************************)
\* The call is over and every invocation of the wrapped function raised a
\* retryable exception
AlwaysFailed ==
    /\ retry.pc = "done"
    /\ retry.calls > 0
    /\ Len(retry.thrown) = retry.calls
    /\ \A i \in DOMAIN retry.thrown : IsRetryable(retry.thrown[i].type, policy)

\* C24. A wrapped function that fails with a retryable exception every time
\* is invoked exactly max_retries + 1 times, and the wrapper then raises the
\* exception of the last invocation itself: the same class, the same
\* object, no wrapper around it. Before that it has been invoked at most
\* max_retries + 1 times.
C24_AttemptCount ==
    /\ retry.calls <= policy.max_retries + 1
    /\ AlwaysFailed =>
          /\ retry.calls = policy.max_retries + 1
          /\ retry.outcome = <<RetryRaise(retry.thrown[retry.calls])>>
          /\ retry.outcome[1].exc[1].raised_by = policy.max_retries + 1

\* max_retries = 3: four invocations, all failed, and the exception of the
\* fourth has been raised.
C24_Witness ==
    /\ AlwaysFailed
    /\ policy.max_retries = 3
    /\ retry.calls = 4
    /\ retry.outcome = <<RetryRaise(retry.thrown[4])>>

\* C25. The k-th sleep (k = 0, 1, ...) lasts min(base_delay *
\* exponential_base^k, max_delay); the delays never decrease and none
\* exceeds max_delay; there is one sleep after each failed attempt but the
\* last one: max_retries sleeps when every attempt fails, none after the
\* final attempt.
C25_Delays ==
    /\ \A k \in 0 .. Len(retry.slept) - 1 :
          /\ retry.slept[k + 1] =
                Min(policy.base_delay * policy.exponential_base ^ k, policy.max_delay)
          /\ retry.slept[k + 1] <= policy.max_delay
          /\ k > 0 => retry.slept[k] <= retry.slept[k + 1]
    /\ retry.pc = "try" => Len(retry.slept) = retry.calls
    /\ retry.pc = "done" => Len(retry.slept) = retry.calls - 1
    /\ AlwaysFailed => Len(retry.slept) = policy.max_retries

\* Every attempt failed under max_retries = 3, base_delay = 1,
\* exponential_base = 2, max_delay = 3: the sleeps were 1, 2 and 3 (4 capped).
C25_Witness ==
    /\ AlwaysFailed
    /\ policy.max_retries = 3
    /\ retry.slept = <<1, 2, 3>>
    /\ policy.max_delay = 3

(***************************************************************************)
(* C26..C28: memoize_with_ttl                                              *)
(***************************************************************************)
\* The key of the call thread t is in
MemoKey(t) == Key(memo_call[t].form[1])

\* The cache holds an entry of the key of t's call, and the call's clock
\* finds it at least ttl_seconds old
MemoExpired(t) ==
    /\ Place(cache, MemoKey(t)) # 0
    /\ memo_call[t].now - cache[Place(cache, MemoKey(t))].timestamp >= memo.ttl_seconds

\* C26. A call goes on to invoke the wrapped function if and only if the
\* cache has no entry of its key or the entry is at least ttl_seconds old;
\* a younger entry's value is returned with the function not invoked and
\* the cache as it was; an expired entry is removed, and what the call
\* stores under the key is the value the function has just returned.
C26_HitAndExpiry ==
    [][\A t \in Callers :
         /\ memo_lookup(t) =>
               /\ memo_call'[t].pc = "compute" <=> (Place(cache, MemoKey(t)) = 0 \/ MemoExpired(t))
               /\ memo_call'[t].pc # "compute" =>
                     /\ memo_call'[t].pc = "idle"
                     /\ memo_call'[t].result =
                           <<RetryReturn(cache[Place(cache, MemoKey(t))].value)>>
                     /\ cache' = cache
               /\ MemoExpired(t) => Place(cache', MemoKey(t)) = 0
         /\ memo_call'[t].value # memo_call[t].value /\ memo_call'[t].value # <<>> =>
               /\ memo_call[t].pc = "compute"
               /\ memo_call'[t].value = <<Computed(memo_call[t].form[1])>>
         /\ memo_insert(t) =>
               /\ Place(cache', MemoKey(t)) # 0
               /\ cache'[Place(cache', MemoKey(t))] =
                     Entry(MemoKey(t), memo_call[t].now, memo_call[t].value[1])
               /\ memo_call'[t].result = <<RetryReturn(memo_call[t].value[1])>>]_vars

\* A call has found an entry of its key that was ttl_seconds old, the entry
\* is gone, the function has been invoked and its value is about to be stored.
C26_Witness ==
    \E t \in Callers :
        /\ memo_call[t].pc = "insert"
        /\ memo_call[t].timestamp # <<>>
        /\ memo_call[t].now - memo_call[t].timestamp[1] = memo.ttl_seconds
        /\ Place(cache, MemoKey(t)) = 0

\* c without its i-th item
Without(c, i) == [j \in 1..(Len(c) - 1) |-> IF j < i THEN c[j] ELSE c[j + 1]]

\* C27. The cache never holds more than maxsize entries. When a value is
\* about to be stored and the cache holds maxsize entries, exactly one of
\* them is removed first, one whose timestamp no other entry's is below;
\* otherwise none is removed. Storing appends the new entry and leaves the
\* others, timestamps included, as they were, and a hit changes nothing in
\* the cache.
C27_SizeBound ==
    /\ [](Len(cache) <= memo.maxsize)
    /\ [][\A t \in Callers :
            /\ memo_evict(t) =>
                  IF Len(cache) >= memo.maxsize /\ cache # <<>>
                  THEN \E i \in DOMAIN cache :
                          /\ cache' = Without(cache, i)
                          /\ \A j \in DOMAIN cache :
                                cache[i].timestamp <= cache[j].timestamp
                  ELSE cache' = cache
            /\ memo_insert(t) =>
                  cache' = Append(cache, Entry(MemoKey(t), memo_call[t].now,
                                               memo_call[t].value[1]))
            /\ memo_lookup(t) /\ memo_call'[t].pc = "idle" => cache' = cache]_vars

\* maxsize = 2: the cache was full, the oldest of its two entries has been
\* removed and the new value is about to be stored.
C27_Witness ==
    \E t \in Callers :
        /\ memo.maxsize = 2
        /\ memo_call[t].pc = "insert"
        /\ memo_call[t].oldest_key # <<>>
        /\ Len(cache) = 1
        /\ cache[1].key # memo_call[t].oldest_key[1]

\* The dict and the lock are in order: no more than maxsize entries, one
\* entry a key, every value one the function computes for a call of that
\* key, and only the holder of the lock inside the body
MemoConsistent ==
    /\ Len(cache) <= memo.maxsize
    /\ \A i, j \in DOMAIN cache : cache[i].key = cache[j].key => i = j
    /\ \A i \in DOMAIN cache :
          \E form \in Forms : Key(form) = cache[i].key /\ cache[i].value = Computed(form)
    /\ \A t \in Callers :
          memo_call[t].pc \in {"compute", "store", "insert"} <=> lock = <<t>>

\* C28. With the threads calling at will, the dict is consistent in every
\* state, and every call that returns a value returns one the function
\* computes for the arguments of that very call.
C28_ThreadSafe ==
    /\ []MemoConsistent
    /\ [][\A t \in Callers :
            memo_call'[t].result # memo_call[t].result
              /\ memo_call'[t].result # <<>> /\ memo_call'[t].result[1].ret # <<>> =>
                  memo_call'[t].result[1].ret[1].of = Bound(memo_call[t].form[1])]_vars

\* Two calls of one key at once: one holds the lock and has invoked the
\* function, the other waits for the lock with a clock that will find the
\* first one's entry expired, and will invoke the function as well.
C28_Witness ==
    \E t, u \in Callers :
        /\ t # u
        /\ memo_call[t].pc = "insert"
        /\ memo_call[u].pc = "lock"
        /\ MemoKey(t) = MemoKey(u)
        /\ memo_call[u].now - memo_call[t].now >= memo.ttl_seconds

(***************************************************************************)
(* C29, C30: the cache behind call_deepseek_cached                         *)
(***************************************************************************)
\* C29 as stated. When cache.get or cache.set fails during
\* call_deepseek_cached, the failure does not reach the caller: the call
\* does not end with the exception of the database.
C29_Swallowed == call.out # <<>> => call.out[1].exc # SqliteError

\* The hit_count of the row of key h
HitCount(tbl, h) == SelectRow(tbl, h)[1].hit_count

Stored(tbl) == { tbl[i].prompt_hash : i \in DOMAIN tbl }

\* The get of r finds a row that has not expired
Hits(r) ==
    /\ conn
    /\ SelectRow(store, KeyOf(r)) # <<>>
    /\ ~Expired(SelectRow(store, KeyOf(r))[1], now)

RECURSIVE HitSum(_)
HitSum(tbl) == IF tbl = <<>> THEN 0 ELSE tbl[1].hit_count + HitSum(Tail(tbl))

C34_CounterInvariant ==
    /\ [](/\ 0 <= heur.successful_attempts
          /\ heur.successful_attempts <= heur.total_attempts
          /\ 0 <= heur.consecutive_failures
          /\ heur.consecutive_failures <= heur.total_attempts - heur.successful_attempts
          /\ heur.consecutive_failures = TrailingFailures)
    /\ [][TerminationHeuristics_should_terminate => heur' = heur]_vars

\* Success, failure, success, failure, failure: a run of two failures, fewer
\* than the three failed attempts, and should_terminate has been asked.
C34_Witness ==
    /\ verdict # <<>>
    /\ heur.total_attempts = 5
    /\ heur.successful_attempts = 2
    /\ heur.consecutive_failures = 2
    /\ recorded[1].success

\* C35. should_terminate returns a (bool, reason) pair without raising, in
\* every state and for every configuration, min_steps = 0 included; with no
\* attempt recorded the success rate stops nothing: the answer is that of
\* the first two rules.
C35_Total ==
    [][TerminationHeuristics_should_terminate =>
         /\ verdict'[1].exc = ""
         /\ heur.total_attempts = 0 =>
               verdict' = <<Returned(IF Rule1 THEN <<TRUE, ConsecutiveReason(0)>>
                                     ELSE IF Rule2 THEN <<TRUE, "Repeated identical patches">>
                                     ELSE <<FALSE, "">>)>>]_vars

\* C36. While every attempt recorded since construction or the last reset is
\* a failure and there are at least max_consecutive_failures (>= 1) of them,
\* should_terminate returns True, whatever the contents of the patches: at
\* the max_consecutive_failures-th attempt at the latest, and at every
\* attempt after it.
C36_FailingRunStops ==
    [][/\ TerminationHeuristics_should_terminate
       /\ config.max_consecutive_failures >= 1
       /\ Successes = 0
       /\ Len(recorded) >= config.max_consecutive_failures
       => /\ verdict'[1].exc = ""
          /\ verdict'[1].resp[1][1] = TRUE]_vars

\* Only failures, more of them than max_consecutive_failures and with
\* contents that differ, and should_terminate has returned True.
C36_Witness ==
    /\ Successes = 0
    /\ Len(recorded) > config.max_consecutive_failures
    /\ Cardinality(LastDiffs(Len(recorded))) > 1
    /\ verdict # <<>>
    /\ verdict[1].exc = ""
    /\ verdict[1].resp[1][1] = TRUE

(***************************************************************************)
(* C37: retry_with_backoff stops at the first outcome that is not a        *)
(* retryable failure                                                       *)
(***************************************************************************)
\* An exception of class type is a retryable failure: an instance of a class
\* of retryable_exceptions
Retryable(type) ==
    type \in policy.retryable_exceptions \/ "Exception" \in policy.retryable_exceptions

\* The exceptions raised so far, less the last n, are retryable failures
RetryableBut(n) ==
    \A i \in 1..Len(retry.thrown) - n : Retryable(retry.thrown[i].type)

\* C37. While the wrapper goes on, every invocation so far has raised a
\* retryable exception. A value returned by the wrapped function is returned
\* by the wrapper, and an exception outside retryable_exceptions leaves the
\* wrapper as it is, both at once: the invocation that produced it is the
\* last, and no sleep follows it. So a function that first succeeds at
\* attempt k (from 0) is invoked k + 1 times, with k sleeps.
C37_StopsAtFirst ==
    /\ retry.pc = "try" =>
          /\ Len(retry.thrown) = retry.calls
          /\ RetryableBut(0)
          /\ retry.attempt = retry.calls
    /\ retry.pc = "done" /\ retry.outcome[1].ret # <<>> =>
          /\ retry.outcome[1].ret[1] \in Values
          /\ Len(retry.thrown) = retry.calls - 1
          /\ RetryableBut(0)
          /\ retry.calls = retry.attempt + 1
          /\ Len(retry.slept) = retry.attempt
    /\ retry.pc = "done" /\ retry.outcome[1].exc # <<>> =>
          /\ Len(retry.thrown) = retry.calls
          /\ RetryableBut(1)
          /\ retry.outcome[1].exc[1] = retry.thrown[retry.calls]
          /\ Len(retry.slept) = retry.calls - 1
          /\ ~Retryable(retry.thrown[retry.calls].type) \/ retry.calls = policy.max_retries + 1

\* Two invocations raised ValueError, which is retryable, and the third
\* returned: three invocations, two sleeps, the value returned.
C37_Witness ==
    /\ retry.pc = "done"
    /\ policy.retryable_exceptions = {"ValueError"}
    /\ retry.outcome = <<RetryReturn("v")>>
    /\ retry.calls = 3
    /\ Len(retry.slept) = 2
    /\ policy.max_retries = 3

\* A retryable failure, then a KeyError that is not retryable: it has left
\* the wrapper after two invocations and one sleep, retries remaining.
C37_WitnessRaise ==
    /\ retry.pc = "done"
    /\ policy.retryable_exceptions = {"ValueError"}
    /\ policy.max_retries = 3
    /\ retry.calls = 2
    /\ retry.outcome = <<RetryRaise(Exc("KeyError", 2))>>
    /\ Len(retry.slept) = 1

(***************************************************************************)
(* C38: the cache key                                                      *)
(***************************************************************************)
\* The same model, the same temperature at two decimals, the same prompt
SameTriple(r1, r2) ==
    /\ r1.model = r2.model
    /\ TempFmt(r1.temperature) = TempFmt(r2.temperature)
    /\ r1.prompt = r2.prompt

\* C38. Two requests have the same key string if and only if they have the
\* same model, the same temperature at two decimals and the same prompt, so
\* what a get returns was set for the model, two-decimal temperature and
\* prompt it is asked for.
C38_KeyExact ==
    /\ [](\A r \in KeyRequests :
             last.req \in KeyRequests =>
                 (KeyOf(r) = KeyOf(last.req) <=> SameTriple(r, last.req)))
    /\ [][last'.op = "get" /\ last'.out # <<>> =>
             last'.out[1].content = Echo(last'.req)]_vars

(***************************************************************************)
(* C39: when acquire returns None                                          *)
(***************************************************************************)
\* C39. acquire returns None if and only if the pool holds max_workers
\* workers and its loop found each of them in use or with a process that had
\* exited. A worker whose process has exited keeps its place in the pool,
\* and can make acquire return None although no worker is in use: acquire
\* removes no worker, and a worker leaves the pool by cleanup or shutdown only.
C39_Exhaustion ==
    [][/\ \A t \in Callers :
            /\ acquire_scan(t) =>
                  /\ caller'[t].pick = 0 <=>
                        \A i \in DOMAIN workers : workers[i].in_use \/ workers[i].exited
                  /\ workers' = workers
            /\ acquire_take(t) =>
                  /\ Absent(t) <=> caller[t].pick = 0 /\ Len(workers) = MaxWorkers
                  /\ Len(workers') >= Len(workers)
                  /\ \A i \in DOMAIN workers :
                        /\ workers'[i].exited = workers[i].exited
                        /\ i # caller[t].pick => workers'[i] = workers[i]
       /\ Len(workers') < Len(workers) =>
             \E t \in Callers : cleanup_body(t) \/ shutdown(t)]_vars

\* The pool is full, no worker is in use, the process of each has exited,
\* and acquire's loop has found nothing: None is what it returns.
C39_Witness ==
    \E t \in Callers :
        /\ caller[t].pc = "acquire"
        /\ caller[t].pick = 0
        /\ Len(workers) = MaxWorkers
        /\ \A i \in DOMAIN workers : ~workers[i].in_use /\ workers[i].exited

(***************************************************************************)
(* C40: the placeholder response and the cache                             *)
(***************************************************************************)
\* C40. A call with use_cache that misses while no API key is set and gets
\* the placeholder from call_deepseek_async returns it with cached = FALSE,
\* posts nothing, and leaves its content in the cache under the key, written
\* as any response is. A later call with use_cache for the same key, made
\* while that row is unexpired, returns the placeholder content with cached =
\* TRUE and does not call call_deepseek_async, whether an API key has been
\* set since or not. A call without use_cache leaves the table as it is: no
\* row is read (no hit is counted), written or deleted.
C40_PlaceholderCached ==
    [][ /\ \A r \in InvokeRequests :
             /\ ( /\ Unexpired(store, now, r) = <<>>
                  /\ ~api_key
                  /\ call_deepseek_cached(r, TRUE)
                  /\ call'.out # <<>>
                  /\ call'.out[1].exc = "" )
                => /\ call'.pc = "done"
                   /\ call'.out[1].resp[1] =
                         AsyncLLMResponse(MockContent, r.model, r.temperature, FALSE)
                   /\ call'.invokes = 1 /\ call'.posts = 0 /\ call'.wrote
                   /\ Fetch(store', KeyOf(r)) =
                         <<[response |-> MockContent, created_at |-> now]>>
                   /\ store' = SetStore(GetStore(store, now, KeyOf(r)), r, MockContent, now, now)
             /\ ( /\ Unexpired(store, now, r) # <<>>
                  /\ Unexpired(store, now, r)[1].response = MockContent
                  /\ call_deepseek_cached(r, TRUE) )
                => /\ call'.out = <<Returned(AsyncLLMResponse(
                                      MockContent, r.model, r.temperature, TRUE))>>
                   /\ call'.invokes = 0 /\ call'.posts = 0
             /\ call_deepseek_cached(r, FALSE) => store' = store /\ ~call'.wrote
        /\ (call.pc = "awaiting" /\ ~call.use_cache /\ call'.pc = "done")
             => store' = store /\ ~call'.wrote ]_vars

\* An API key is set, and a call has been served the placeholder from the
\* cache, where a call made without a key had left it.
C40_Witness ==
    /\ api_key
    /\ call.pc = "done" /\ call.use_cache /\ call.invokes = 0
    /\ call.out = <<Returned(AsyncLLMResponse(
                       MockContent, call.req.model, call.req.temperature, TRUE))>>

(***************************************************************************)
(* C31, C32: the lock of the pool and the failures of cleanup              *)
(***************************************************************************)
\* Where a caller is while a process is spawned, signalled to terminate,
\* waited on or killed
ProcessIO ==
    {"spawn"} \cup { At(op, where) : op \in PoolOps, where \in {"terminate", "wait", "kill"} }

\* C31. The lock of the pool is held only while the fields of the workers
\* and the list are read or updated: no caller holds it while a process is
\* spawned, signalled to terminate, waited on or killed, in acquire, cleanup
\* and shutdown.
C31_LockScope ==
    \A t \in Callers : caller[t].pc \in ProcessIO => pool_lock # <<t>>

\* C32. When terminate() or the bounded wait raises for a worker cleanup
\* reaps, kill() is called on that worker's process; whether kill() returns
\* or raises, the loop goes on with the next worker; cleanup leaves the
\* with statement after the last worker by assigning the list, from which
\* every worker it found reapable is gone, and returns.
C32_CleanupEscalates ==
    [][\A t \in Callers :
         /\ ( /\ caller[t].pc \in {At("cleanup", "terminate"), At("cleanup", "wait")}
              /\ caller'[t] # caller[t]
              /\ signalled'[1].raised )
            => /\ caller'[t].pc = At("cleanup", "kill")
               /\ caller'[t].pick = caller[t].pick
               /\ workers' = workers
         /\ ( /\ caller[t].pc = At("cleanup", "kill")
              /\ caller'[t] # caller[t] )
            => /\ signalled'[1].stop = "kill"
               /\ signalled'[1].worker = workers[caller[t].pick]
               /\ caller'[t].pc = At("cleanup", "loop")
               /\ caller'[t].pick = caller[t].pick + 1
               /\ workers' = workers
         /\ ( /\ caller[t].pc = At("cleanup", "loop")
              /\ caller'[t] # caller[t] )
            => IF caller[t].pick <= Len(workers)
               THEN caller'[t].pc \in {At("cleanup", "loop"), At("cleanup", "terminate")}
               ELSE /\ caller'[t].pc = "idle"
                    /\ pool_lock' = <<>>
                    /\ workers' = SelectSeq(workers, LAMBDA w :
                           w.in_use \/ ~(caller[t].now - w.last_used > MaxIdleTime))]_vars

\* kill() has just raised on the first of two idle workers, whose process
\* is still running, both being due for reaping: cleanup is at the second.
C32_Witness ==
    \E t \in Callers :
        /\ caller[t].pc = At("cleanup", "loop")
        /\ caller[t].pick = 2
        /\ Len(workers) = 2
        /\ signalled = ProcessCall(workers[1], "kill", TRUE)
        /\ ~workers[1].exited
        /\ Reapable(workers[2], caller[t].now)

(***************************************************************************)
(* C33: no call blocks forever                                             *)
(***************************************************************************)
\* The steps a caller of the pool can take from inside an operation
PoolStep(t) ==
    \/ acquire_return(t)
    \/ acquire_create(t)
    \/ \E raises \in BOOLEAN : acquire_created(t, raises)
    \/ cleanup_lock(t)
    \/ \E op \in PoolOps : loop_next(t, op)
    \/ \E op \in PoolOps, raises \in BOOLEAN : process_terminate(t, op, raises)
    \/ \E op \in PoolOps, raises \in BOOLEAN : process_wait(t, op, raises)
    \/ \E op \in PoolOps, raises \in BOOLEAN : process_kill(t, op, raises)

\* The pool's part of C33, under SpecPoolSteps: the caller that holds the
\* lock is inside an operation and has a step to take, and a caller inside
\* an operation holds the lock or waits for it at the with statement of
\* cleanup.
PoolCallsGoOn ==
    \A t \in Callers :
        /\ pool_lock = <<t>> => caller[t].pc # "idle" /\ ENABLED PoolStep(t)
        /\ caller[t].pc # "idle" => pool_lock = <<t>> \/ caller[t].pc = "cleanup"
        /\ caller[t].pc = "cleanup" /\ pool_lock = <<>> => ENABLED cleanup_lock(t)

\* C33, for the calls through a memoize_with_ttl wrapper: a call that waits
\* for `lock` waits for a thread that is running the body of another call,
\* which ends and gives the lock back when the wrapped function completes;
\* no call waits for a lock that can only be given back by a call that is
\* itself waiting. (Of the pool the claim holds: PoolCallsGoOn.)
C33_NoCallBlocks ==
    \A t \in Callers :
        memo_call[t].pc = "lock" /\ lock # <<>> =>
            memo_call[lock[1]].pc \in {"compute", "store", "insert"}

====
